---- MODULE Spec2Model ----
(***************************************************************************)
(* A model of the Replicate command-line client: the input resolution and  *)
(* validation engine (parseInputArgs, validateInput), the credential store *)
(* and cached client (config-manager, replicate-client), the auth recovery *)
(* of BaseCommand, and the commands that drive a prediction through its    *)
(* lifecycle (run, predictions:create) or list/show remote objects.        *)
(*                                                                         *)
(* Strings are TLA+ strings, handled with Len, SubSeq and \o as the        *)
(* JavaScript string methods handle them.  A JavaScript value is a record  *)
(* [t, n, s, b]: its type tag, and its number, text or boolean.  An object *)
(* is the sequence of its [k, v] entries in insertion order, as            *)
(* Object.entries lists them.                                              *)
(***************************************************************************)
EXTENDS Integers, Sequences, FiniteSets, TLC

(***************************************************************************)
(* JavaScript string methods                                               *)
(***************************************************************************)
Char(s, i) == SubSeq(s, i, i)

StartsWith(s, p) == Len(s) >= Len(p) /\ SubSeq(s, 1, Len(p)) = p

\* String.prototype.indexOf, 1-based; 0 when `n` does not occur in `s`.
IndexOf(s, n) ==
  LET hits == {i \in 1..(Len(s) - Len(n) + 1) : SubSeq(s, i, i + Len(n) - 1) = n}
  IN  IF hits = {} THEN 0 ELSE CHOOSE i \in hits : \A j \in hits : i <= j

Includes(s, n) == IndexOf(s, n) # 0

LowerChar(c) ==
  CASE c = "A" -> "a" [] c = "B" -> "b" [] c = "C" -> "c" [] c = "D" -> "d"
    [] c = "E" -> "e" [] c = "F" -> "f" [] c = "G" -> "g" [] c = "H" -> "h"
    [] c = "I" -> "i" [] c = "J" -> "j" [] c = "K" -> "k" [] c = "L" -> "l"
    [] c = "M" -> "m" [] c = "N" -> "n" [] c = "O" -> "o" [] c = "P" -> "p"
    [] c = "Q" -> "q" [] c = "R" -> "r" [] c = "S" -> "s" [] c = "T" -> "t"
    [] c = "U" -> "u" [] c = "V" -> "v" [] c = "W" -> "w" [] c = "X" -> "x"
    [] c = "Y" -> "y" [] c = "Z" -> "z" [] OTHER -> c

RECURSIVE ToLowerCase(_)
ToLowerCase(s) ==
  IF s = "" THEN "" ELSE LowerChar(Char(s, 1)) \o ToLowerCase(SubSeq(s, 2, Len(s)))

\* String.prototype.split(sep) for a one-character separator.
RECURSIVE Split(_, _)
Split(s, sep) ==
  LET i == IndexOf(s, sep)
  IN  IF i = 0 THEN <<s>>
      ELSE <<SubSeq(s, 1, i - 1)>> \o Split(SubSeq(s, i + 1, Len(s)), sep)

\* Array.prototype.join(sep) of an array of strings.
RECURSIVE Join(_, _)
Join(parts, sep) ==
  IF Len(parts) = 0 THEN ""
  ELSE IF Len(parts) = 1 THEN parts[1]
  ELSE parts[1] \o sep \o Join(Tail(parts), sep)

IsSpace(c) == c \in {" ", "\t", "\n", "\r"}

\* String.prototype.trim.
RECURSIVE Trim(_)
Trim(s) ==
  IF s = "" THEN ""
  ELSE IF IsSpace(Char(s, 1)) THEN Trim(SubSeq(s, 2, Len(s)))
  ELSE IF IsSpace(Char(s, Len(s))) THEN Trim(SubSeq(s, 1, Len(s) - 1))
  ELSE s

(***************************************************************************)
(* JavaScript values                                                       *)
(***************************************************************************)
Str(s)  == [t |-> "string",  n |-> 0, s |-> s,  b |-> FALSE]
Num(n)  == [t |-> "number",  n |-> n, s |-> "", b |-> FALSE]
Bool(b) == [t |-> "boolean", n |-> 0, s |-> "", b |-> b]
Null    == [t |-> "null",    n |-> 0, s |-> "", b |-> FALSE]
Undefined == [t |-> "undefined", n |-> 0, s |-> "", b |-> FALSE]
\* An array or a nested object, kept as its JSON text.
Arr(s)  == [t |-> "array",   n |-> 0, s |-> s,  b |-> FALSE]
Obj(s)  == [t |-> "object",  n |-> 0, s |-> s,  b |-> FALSE]

\* The typeof operator: null, arrays and objects are all "object".
TypeOf(v) == IF v.t \in {"null", "array", "object"} THEN "object" ELSE v.t

\* Objects: sequences of [k, v] entries with distinct keys.
ObjKeys(o) == {o[i].k : i \in 1..Len(o)}
ObjHas(o, k) == k \in ObjKeys(o)
ObjGet(o, k) == o[CHOOSE i \in 1..Len(o) : o[i].k = k].v
\* An assignment that leaves the value of an existing key alone.
ObjSetKeepsFirst(o, k, v) ==
  IF ObjHas(o, k) THEN o ELSE Append(o, [k |-> k, v |-> v])
\* o[k] = v: an existing key keeps its place, a new key goes last.
ObjSet(o, k, v) ==
  IF ObjHas(o, k)
  THEN [i \in 1..Len(o) |-> IF o[i].k = k THEN [k |-> k, v |-> v] ELSE o[i]]
  ELSE Append(o, [k |-> k, v |-> v])
\* The names every object inherits from Object.prototype.
PrototypeKeys ==
  {"constructor", "toString", "toLocaleString", "valueOf", "hasOwnProperty",
   "isPrototypeOf", "propertyIsEnumerable", "__proto__", "__defineGetter__",
   "__defineSetter__", "__lookupGetter__", "__lookupSetter__"}
\* k in o: own or inherited.
In(o, k) == ObjHas(o, k) \/ k \in PrototypeKeys
\* Object.assign(target, source) for a source object.
RECURSIVE ObjAssign(_, _)
ObjAssign(target, source) ==
  IF Len(source) = 0 THEN target
  ELSE ObjAssign(ObjSet(target, source[1].k, source[1].v), Tail(source))

(***************************************************************************)
(* JSON.parse and Number(), on the alphabet of the modelled inputs:        *)
(* integer literals, the three keywords, quoted strings without escapes,   *)
(* and flat arrays and objects of such scalars.                            *)
(***************************************************************************)
IsDigit(c) == c \in {"0", "1", "2", "3", "4", "5", "6", "7", "8", "9"}

DigitVal(c) ==
  CASE c = "0" -> 0 [] c = "1" -> 1 [] c = "2" -> 2 [] c = "3" -> 3
    [] c = "4" -> 4 [] c = "5" -> 5 [] c = "6" -> 6 [] c = "7" -> 7
    [] c = "8" -> 8 [] c = "9" -> 9

AllDigits(s) == Len(s) > 0 /\ \A i \in 1..Len(s) : IsDigit(Char(s, i))

RECURSIVE DigitsToNat(_)
DigitsToNat(s) ==
  IF s = "" THEN 0
  ELSE DigitsToNat(SubSeq(s, 1, Len(s) - 1)) * 10 + DigitVal(Char(s, Len(s)))

\* The JSON number grammar, integers only: -?(0|[1-9][0-9]*).
IsJSONInt(s) ==
  LET d == IF StartsWith(s, "-") THEN SubSeq(s, 2, Len(s)) ELSE s
  IN  AllDigits(d) /\ (Len(d) = 1 \/ Char(d, 1) # "0")

JSONIntVal(s) ==
  IF StartsWith(s, "-") THEN 0 - DigitsToNat(SubSeq(s, 2, Len(s))) ELSE DigitsToNat(s)

\* A JSON string literal: quoted, with no quote or escape inside.
IsJSONString(s) ==
  /\ Len(s) >= 2
  /\ Char(s, 1) = "\"" /\ Char(s, Len(s)) = "\""
  /\ \A i \in 2..(Len(s) - 1) : Char(s, i) \notin {"\"", "\\", "\n", "\t", "\r"}

JSONStringVal(s) == SubSeq(s, 2, Len(s) - 1)

NoValue == [ok |-> FALSE, v |-> Null, entries |-> <<>>]
Parsed(v, entries) == [ok |-> TRUE, v |-> v, entries |-> entries]

\* A scalar JSON text, surrounding whitespace allowed.
JSONScalar(s) ==
  LET t == Trim(s)
  IN  IF t = "true" THEN Parsed(Bool(TRUE), <<>>)
      ELSE IF t = "false" THEN Parsed(Bool(FALSE), <<>>)
      ELSE IF t = "null" THEN Parsed(Null, <<>>)
      ELSE IF IsJSONInt(t) THEN Parsed(Num(JSONIntVal(t)), <<>>)
      ELSE IF IsJSONString(t) THEN Parsed(Str(JSONStringVal(t)), <<>>)
      ELSE NoValue

\* One "key": scalar member of a flat object.
JSONMember(s) ==
  LET i == IndexOf(s, ":")
      k == Trim(SubSeq(s, 1, i - 1))
      m == JSONScalar(SubSeq(s, i + 1, Len(s)))
  IN  IF i # 0 /\ IsJSONString(k) /\ m.ok
      THEN [ok |-> TRUE, k |-> JSONStringVal(k), v |-> m.v]
      ELSE [ok |-> FALSE, k |-> "", v |-> Null]

RECURSIVE MembersToEntries(_)
MembersToEntries(ms) ==
  IF Len(ms) = 0 THEN <<>>
  ELSE ObjSet(MembersToEntries(SubSeq(ms, 1, Len(ms) - 1)),
              JSONMember(ms[Len(ms)]).k, JSONMember(ms[Len(ms)]).v)

\* The own enumerable properties Object.assign copies from a string: its characters.
StringEntries(s) == [i \in 1..Len(s) |-> [k |-> ToString(i - 1), v |-> Str(Char(s, i))]]

\* JSON.parse(text): ok with the value (and, for Object.assign, its own
\* enumerable entries), or not ok when JSON.parse throws a SyntaxError.
JSONParse(text) ==
  LET t     == Trim(text)
      inner == Trim(SubSeq(t, 2, Len(t) - 1))
      parts == Split(inner, ",")
  IN  IF Len(t) >= 2 /\ Char(t, 1) = "[" /\ Char(t, Len(t)) = "]"
      THEN IF inner = "" THEN Parsed(Arr(t), <<>>)
           ELSE IF \A i \in 1..Len(parts) : JSONScalar(parts[i]).ok
           THEN Parsed(Arr(t),
                       [i \in 1..Len(parts) |->
                          [k |-> ToString(i - 1), v |-> JSONScalar(parts[i]).v]])
           ELSE NoValue
      ELSE IF Len(t) >= 2 /\ Char(t, 1) = "{" /\ Char(t, Len(t)) = "}"
      THEN IF inner = "" THEN Parsed(Obj(t), <<>>)
           ELSE IF \A i \in 1..Len(parts) : JSONMember(parts[i]).ok
           THEN Parsed(Obj(t), MembersToEntries(parts))
           ELSE NoValue
      ELSE IF JSONScalar(t).ok
      THEN Parsed(JSONScalar(t).v,
                  IF JSONScalar(t).v.t = "string"
                  THEN StringEntries(JSONScalar(t).v.s) ELSE <<>>)
      ELSE NoValue

\* The text of the SyntaxError JSON.parse throws, as template literals print it.
JSONSyntaxError == "SyntaxError: Unexpected token in JSON"

\* Number(string), decimal integers: blank is 0, a sign and leading zeros are
\* allowed, anything else is NaN.
ToNumber(s) ==
  LET t == Trim(s)
      d == IF StartsWith(t, "-") \/ StartsWith(t, "+") THEN SubSeq(t, 2, Len(t)) ELSE t
  IN  IF t = "" THEN [nan |-> FALSE, n |-> 0]
      ELSE IF AllDigits(d)
      THEN [nan |-> FALSE,
            n |-> IF StartsWith(t, "-") THEN 0 - DigitsToNat(d) ELSE DigitsToNat(d)]
      ELSE [nan |-> TRUE, n |-> 0]

(***************************************************************************)
(* argument-parser: parseInputArgs                                         *)
(***************************************************************************)
\* The coercion without the JSON.parse attempt.
CoerceWithoutJSON(value) ==
  IF value = "true" THEN Bool(TRUE)
  ELSE IF value = "false" THEN Bool(FALSE)
  ELSE IF value = "null" THEN Null
  ELSE IF ~ToNumber(value).nan /\ Trim(value) # "" THEN Num(ToNumber(value).n)
  ELSE Str(value)

\* The typed value of one --key=value value.
Coerce(value) ==
  IF JSONParse(value).ok THEN JSONParse(value).v
  ELSE IF value = "true" THEN Bool(TRUE)
  ELSE IF value = "false" THEN Bool(FALSE)
  ELSE IF value = "null" THEN Null
  ELSE IF ~ToNumber(value).nan /\ Trim(value) # "" THEN Num(ToNumber(value).n)
  ELSE Str(value)

Cwd == "/cwd"

\* path.resolve of a path: absolute as it is, relative under the working directory.
PathResolve(p) == IF StartsWith(p, "/") THEN p ELSE Cwd \o "/" \o p

IsFileToken(args, i) ==
  \/ StartsWith(args[i], "--input-file=")
  \/ (args[i] = "--input-file" /\ i + 1 <= Len(args))

\* The first loop: the path of the first input-file token, "" (null) when none.
FindInputFile(args) ==
  LET hits == {i \in 1..Len(args) : IsFileToken(args, i)}
      i    == CHOOSE h \in hits : \A j \in hits : h <= j
  IN  IF hits = {} THEN ""
      ELSE IF StartsWith(args[i], "--input-file=") THEN Split(args[i], "=")[2]
      ELSE args[i + 1]

\* The token test without the "--" prefix.
IsKeyValueTokenAnyPrefix(arg) ==
  Includes(arg, "=") /\ ~StartsWith(arg, "--input-file=")

IsKeyValueToken(arg) ==
  StartsWith(arg, "--") /\ Includes(arg, "=") /\ ~StartsWith(arg, "--input-file=")

\* The value cut at its first '=': split('=')[1].
TokenValueSecondPart(arg) == Split(SubSeq(arg, 3, Len(arg)), "=")[2]

TokenKey(arg) == Split(SubSeq(arg, 3, Len(arg)), "=")[1]
TokenValue(arg) == Join(Tail(Split(SubSeq(arg, 3, Len(arg)), "=")), "=")

\* The second loop: every --key=value token, in order, assigned on top of `input`.
RECURSIVE ApplyKeyValues(_, _)
ApplyKeyValues(input, args) ==
  IF Len(args) = 0 THEN input
  ELSE ApplyKeyValues(
         IF IsKeyValueToken(args[1])
         THEN ObjSet(input, TokenKey(args[1]), Coerce(TokenValue(args[1])))
         ELSE input,
         Tail(args))

Thrown(message) == [ok |-> FALSE, input |-> <<>>, message |-> message]
Returned(input) == [ok |-> TRUE, input |-> input, message |-> ""]

\* parseInputArgs with the file assigned on top of the --key=value tokens.
parseInputArgsFileLast(args, fs) ==
  LET inputFile == FindInputFile(args)
      filePath  == PathResolve(inputFile)
  IN  IF inputFile = "" THEN Returned(ApplyKeyValues(<<>>, args))
      ELSE IF filePath \notin DOMAIN fs
      THEN Thrown("Input file not found: " \o filePath)
      ELSE IF ~JSONParse(fs[filePath]).ok
      THEN Thrown("Invalid JSON in input file: " \o JSONSyntaxError)
      ELSE Returned(ObjAssign(ApplyKeyValues(<<>>, args), JSONParse(fs[filePath]).entries))

\* parseInputArgs that goes on with the --key=value tokens when the file is
\* missing or is not JSON.
parseInputArgsKeepsCli(args, fs) ==
  LET inputFile == FindInputFile(args)
      filePath  == PathResolve(inputFile)
  IN  IF inputFile = "" \/ filePath \notin DOMAIN fs \/ ~JSONParse(fs[filePath]).ok
      THEN Returned(ApplyKeyValues(<<>>, args))
      ELSE Returned(ApplyKeyValues(ObjAssign(<<>>, JSONParse(fs[filePath]).entries), args))

\* parseInputArgs(args) on a file system `fs`: a function from the absolute
\* paths that exist to the files' contents.
parseInputArgs(args, fs) ==
  LET inputFile == FindInputFile(args)
      filePath  == PathResolve(inputFile)
  IN  IF inputFile = "" THEN Returned(ApplyKeyValues(<<>>, args))
      ELSE IF filePath \notin DOMAIN fs
      THEN Thrown("Input file not found: " \o filePath)
      ELSE IF ~JSONParse(fs[filePath]).ok
      THEN Thrown("Invalid JSON in input file: " \o JSONSyntaxError)
      ELSE Returned(ApplyKeyValues(ObjAssign(<<>>, JSONParse(fs[filePath]).entries), args))

(***************************************************************************)
(* argument-parser: validateInput                                          *)
(*                                                                         *)
(* A schema is [properties, required]: properties an object whose values   *)
(* are field schemas [type, hasMin, minimum, hasMax, maximum, hasEnum,     *)
(* enum], required a sequence of field names.                              *)
(***************************************************************************)
Field(type) ==
  [type |-> type, hasMin |-> FALSE, minimum |-> 0, hasMax |-> FALSE, maximum |-> 0,
   hasEnum |-> FALSE, enum |-> <<>>]
WithMin(f, m) == [f EXCEPT !.hasMin = TRUE, !.minimum = m]
WithMax(f, m) == [f EXCEPT !.hasMax = TRUE, !.maximum = m]
WithEnum(f, e) == [f EXCEPT !.hasEnum = TRUE, !.enum = e]

\* String(v), as Array.prototype.join and toString print a value.
ValueToString(v) ==
  CASE v.t = "string" -> v.s
    [] v.t = "number" -> ToString(v.n)
    [] v.t = "boolean" -> (IF v.b THEN "true" ELSE "false")
    [] v.t = "null" -> ""
    [] v.t = "object" -> "[object Object]"
    [] OTHER -> v.s

\* Array.prototype.toString of an array kept as JSON text: its elements joined by ",".
ArrayToString(v) ==
  LET es == JSONParse(v.s).entries
  IN  Join([i \in 1..Len(es) |-> ValueToString(es[i].v)], ",")

\* The number a relational comparison with a number converts `v` to.
ToNumeric(v) ==
  CASE v.t = "number" -> [nan |-> FALSE, n |-> v.n]
    [] v.t = "string" -> ToNumber(v.s)
    [] v.t = "boolean" -> [nan |-> FALSE, n |-> IF v.b THEN 1 ELSE 0]
    [] v.t = "null" -> [nan |-> FALSE, n |-> 0]
    [] v.t = "array" -> ToNumber(ArrayToString(v))
    [] OTHER -> [nan |-> TRUE, n |-> 0]

\* value < bound and value > bound: false when the value converts to NaN.
LessThan(v, bound) == ~ToNumeric(v).nan /\ ToNumeric(v).n < bound
GreaterThan(v, bound) == ~ToNumeric(v).nan /\ ToNumeric(v).n > bound

\* enum.includes(value): strict equality, so an array or object is never a member.
EnumIncludes(enum, v) ==
  v.t \notin {"array", "object"} /\ \E i \in 1..Len(enum) : enum[i] = v

EnumJoin(enum) == Join([i \in 1..Len(enum) |-> ValueToString(enum[i])], ", ")

MissingError(field) == "Missing required field: " \o field
TypeError(key, expected, v) ==
  "Field " \o key \o " must be " \o expected \o ", got " \o TypeOf(v)
MinError(key, f) == "Field " \o key \o " must be >= " \o ToString(f.minimum)
MaxError(key, f) == "Field " \o key \o " must be <= " \o ToString(f.maximum)
EnumError(key, f) == "Field " \o key \o " must be one of: " \o EnumJoin(f.enum)

\* The first loop: one error per required field that is not `in` the input, or
\* is undefined or null there.  An inherited name reads as a function: neither.
RECURSIVE RequiredErrors(_, _)
RequiredErrors(input, required) ==
  IF Len(required) = 0 THEN <<>>
  ELSE (IF ~In(input, required[1])
           \/ (ObjHas(input, required[1])
               /\ ObjGet(input, required[1]).t \in {"undefined", "null"})
        THEN <<MissingError(required[1])>> ELSE <<>>)
       \o RequiredErrors(input, Tail(required))

\* The field checks with the bounds tested for truthiness: a bound of 0 is no bound.
FieldErrorsTruthyBounds(key, v, f) ==
  IF f.type \in {"integer", "number"}
  THEN (IF TypeOf(v) # "number" THEN <<TypeError(key, "a number", v)>> ELSE <<>>)
       \o (IF f.hasMin /\ f.minimum # 0 /\ LessThan(v, f.minimum)
           THEN <<MinError(key, f)>> ELSE <<>>)
       \o (IF f.hasMax /\ f.maximum # 0 /\ GreaterThan(v, f.maximum)
           THEN <<MaxError(key, f)>> ELSE <<>>)
  ELSE IF f.type = "string"
  THEN (IF TypeOf(v) # "string" THEN <<TypeError(key, "a string", v)>> ELSE <<>>)
       \o (IF f.hasEnum /\ ~EnumIncludes(f.enum, v) THEN <<EnumError(key, f)>> ELSE <<>>)
  ELSE IF f.type = "boolean"
  THEN (IF TypeOf(v) # "boolean" THEN <<TypeError(key, "a boolean", v)>> ELSE <<>>)
  ELSE <<>>

\* The field checks with the enum tested for every declared type.
FieldErrorsEnumAnyType(key, v, f) ==
  (IF f.type \in {"integer", "number"}
   THEN (IF TypeOf(v) # "number" THEN <<TypeError(key, "a number", v)>> ELSE <<>>)
        \o (IF f.hasMin /\ LessThan(v, f.minimum) THEN <<MinError(key, f)>> ELSE <<>>)
        \o (IF f.hasMax /\ GreaterThan(v, f.maximum) THEN <<MaxError(key, f)>> ELSE <<>>)
   ELSE IF f.type = "string"
   THEN (IF TypeOf(v) # "string" THEN <<TypeError(key, "a string", v)>> ELSE <<>>)
   ELSE IF f.type = "boolean"
   THEN (IF TypeOf(v) # "boolean" THEN <<TypeError(key, "a boolean", v)>> ELSE <<>>)
   ELSE <<>>)
  \o (IF f.hasEnum /\ ~EnumIncludes(f.enum, v) THEN <<EnumError(key, f)>> ELSE <<>>)

\* The body of the second loop for one declared field.
FieldErrors(key, v, f) ==
  IF f.type \in {"integer", "number"}
  THEN (IF TypeOf(v) # "number" THEN <<TypeError(key, "a number", v)>> ELSE <<>>)
       \o (IF f.hasMin /\ LessThan(v, f.minimum) THEN <<MinError(key, f)>> ELSE <<>>)
       \o (IF f.hasMax /\ GreaterThan(v, f.maximum) THEN <<MaxError(key, f)>> ELSE <<>>)
  ELSE IF f.type = "string"
  THEN (IF TypeOf(v) # "string" THEN <<TypeError(key, "a string", v)>> ELSE <<>>)
       \o (IF f.hasEnum /\ ~EnumIncludes(f.enum, v) THEN <<EnumError(key, f)>> ELSE <<>>)
  ELSE IF f.type = "boolean"
  THEN (IF TypeOf(v) # "boolean" THEN <<TypeError(key, "a boolean", v)>> ELSE <<>>)
  ELSE <<>>

\* The second loop with an error for every field properties does not declare.
RECURSIVE TypeErrorsRejectUnknown(_, _)
TypeErrorsRejectUnknown(entries, properties) ==
  IF Len(entries) = 0 THEN <<>>
  ELSE (IF ~ObjHas(properties, entries[1].k)
        THEN <<"Field " \o entries[1].k \o " is not allowed">>
        ELSE FieldErrors(entries[1].k, entries[1].v, ObjGet(properties, entries[1].k)))
       \o TypeErrorsRejectUnknown(Tail(entries), properties)

\* The second loop: every entry of the input, undeclared fields skipped.  A key
\* that properties only inherits has a function for its schema: no type, no error.
RECURSIVE TypeErrors(_, _)
TypeErrors(entries, properties) ==
  IF Len(entries) = 0 THEN <<>>
  ELSE (IF ~In(properties, entries[1].k) \/ ~ObjHas(properties, entries[1].k) THEN <<>>
        ELSE FieldErrors(entries[1].k, entries[1].v, ObjGet(properties, entries[1].k)))
       \o TypeErrors(Tail(entries), properties)

\* validateInput that returns at the first loop that found an error.
validateInputFailFast(input, schema) ==
  LET missing == RequiredErrors(input, schema.required)
      errors  == IF Len(missing) > 0 THEN missing
                 ELSE TypeErrors(input, schema.properties)
  IN  [valid |-> Len(errors) = 0, errors |-> errors]

validateInput(input, schema) ==
  LET errors == RequiredErrors(input, schema.required)
                \o TypeErrors(input, schema.properties)
  IN  [valid |-> Len(errors) = 0, errors |-> errors]

(***************************************************************************)
(* config-manager and replicate-client: the stored token, the environment  *)
(* and the cached client.  "" is the absent (or empty, equally falsy)      *)
(* token; a client is [id, auth] and id 0 is null.                         *)
(***************************************************************************)
NullClient == [id |-> 0, auth |-> ""]

readToken(cfg) == cfg
writeToken(cfg, token) == token
deleteToken(cfg) == ""
\* resetClient that leaves the cached client in place.
resetClientKeeps(c) == c
resetClient(c) == NullClient

\* process.env.REPLICATE_API_TOKEN once getApiToken has run: dotenv fills it
\* from the .env file only when neither the config nor the environment has one.
EnvAfterGetApiToken(cfg, env, dot) ==
  IF readToken(cfg) = "" /\ env = "" THEN dot ELSE env

getApiToken(cfg, env, dot) ==
  IF readToken(cfg) # "" THEN readToken(cfg)
  ELSE IF env # "" THEN env
  ELSE EnvAfterGetApiToken(cfg, env, dot)

\* getReplicateClient: the client it returns (NullClient for null), and the
\* cached client, environment and next instance it leaves.
getReplicateClient(c, cfg, env, dot, next) ==
  IF c.id # 0 THEN [client |-> c, env |-> env, next |-> next]
  ELSE IF getApiToken(cfg, env, dot) = ""
  THEN [client |-> NullClient, env |-> EnvAfterGetApiToken(cfg, env, dot), next |-> next]
  ELSE [client |-> [id |-> next, auth |-> getApiToken(cfg, env, dot)],
        env |-> EnvAfterGetApiToken(cfg, env, dot), next |-> next + 1]

(***************************************************************************)
(* BaseCommand.handleAuthError: the classification of a caught error.      *)
(* An error is [origin, status, hasMessage, message]; status 0 is an error *)
(* without a response, hasMessage FALSE one without a message.             *)
(***************************************************************************)
NoError == [origin |-> "none", status |-> 0, hasMessage |-> FALSE, message |-> ""]
RemoteError(status, message) ==
  [origin |-> "remote", status |-> status, hasMessage |-> TRUE, message |-> message]
\* What this.error(message) throws inside the command body.
LocalError(message) ==
  [origin |-> "local", status |-> 0, hasMessage |-> TRUE, message |-> message]

\* The classification without toLowerCase.
isAuthErrorCaseSensitive(error) ==
  \/ error.status = 401
  \/ error.status = 403
  \/ (error.hasMessage /\ Includes(error.message, "unauthorized"))
  \/ (error.hasMessage /\ Includes(error.message, "authentication"))
  \/ (error.hasMessage /\ Includes(error.message, "invalid token"))

\* The classification taking every 4xx status for an auth error.
isAuthErrorAnyClientError(error) ==
  \/ (error.status >= 400 /\ error.status < 500)
  \/ (error.hasMessage /\ Includes(ToLowerCase(error.message), "unauthorized"))
  \/ (error.hasMessage /\ Includes(ToLowerCase(error.message), "authentication"))
  \/ (error.hasMessage /\ Includes(ToLowerCase(error.message), "invalid token"))

isAuthError(error) ==
  \/ error.status = 401
  \/ error.status = 403
  \/ (error.hasMessage /\ Includes(ToLowerCase(error.message), "unauthorized"))
  \/ (error.hasMessage /\ Includes(ToLowerCase(error.message), "authentication"))
  \/ (error.hasMessage /\ Includes(ToLowerCase(error.message), "invalid token"))

\* ${error.message} in a template literal.
MessageText(error) == IF error.hasMessage THEN error.message ELSE "undefined"

(***************************************************************************)
(* The state of one command invocation                                     *)
(***************************************************************************)
VARIABLES
  inv,          \* the invocation: [cmd, wait, search, model, inputFile, argv]
  pc,           \* where the command is suspended
  configToken,  \* the token in the config file
  envToken,     \* process.env.REPLICATE_API_TOKEN
  dotenvToken,  \* REPLICATE_API_TOKEN of the .env.local / .env file
  client,       \* replicate-client's cached client
  nextClient,   \* the id of the next client constructed
  replicate,    \* the client the running attempt holds
  created,      \* predictions.create calls that succeeded
  recoveries,   \* auth recoveries started
  runs,         \* times run() was entered
  caught,       \* the error the running attempt caught, NoError before
  failedClient, \* the id of the client in use when that error was caught
  events,       \* the side effects since that error was caught
  outcome,      \* what the command reported: [kind, message]
  fin,          \* the argument of the function under check
  fout,         \* its result
  prediction,   \* the prediction the last remote call returned
  job           \* the status of the prediction at the remote service

vars == <<inv, pc, configToken, envToken, dotenvToken, client, nextClient, replicate,
          created, recoveries, runs, caught, failedClient, events, outcome, fin, fout,
          prediction, job>>

\* How many auth recoveries one invocation is followed through.
MaxRecoveries == 2

PredictionCmds == {"run", "predictions:create"}
ModelCmds == PredictionCmds \cup {"models:show"}

FileSystem ==
  ("/cwd/in.json" :> "{\"prompt\": \"a cat\", \"width\": 256}")
  @@ ("/cwd/other.json" :> "{\"seed\": 7, \"prompt\": \"a dog\"}")
  @@ ("/cwd/a=b.json" :> "{\"steps\": 20}")
  @@ ("/cwd/bad.json" :> "{prompt")

Invocation(cmd, wait, search, model, inputFile, argv) ==
  [cmd |-> cmd, wait |-> wait, search |-> search, model |-> model,
   inputFile |-> inputFile, argv |-> argv]

\* --input-file values and the remaining argv (the model argument included).
InputChoices ==
  { <<"", <<"owner/model", "--prompt=a cat">>>>,
    <<"", <<"owner/model">>>>,
    <<"in.json", <<"owner/model", "--width=2048">>>>,
    <<"in.json", <<"owner/model", "--mode=fast">>>>,
    <<"authentication.json", <<"owner/model">>>>,
    <<"nope.json", <<"owner/model">>>>,
    <<"bad.json", <<"owner/model">>>> }

Invocations ==
  { Invocation(c, w, FALSE, "owner/model", i[1], i[2]) :
      c \in PredictionCmds, w \in BOOLEAN, i \in InputChoices }
  \cup { Invocation(c, FALSE, FALSE, "model", "", <<"model">>) : c \in ModelCmds }
  \cup { Invocation("models:show", FALSE, FALSE, "owner/model", "", <<"owner/model">>) }
  \cup { Invocation("models:list", FALSE, sr, "", "", <<>>) : sr \in BOOLEAN }
  \cup { Invocation("predictions:list", FALSE, FALSE, "", "", <<>>) }

\* Config, environment and .env tokens the invocation may start with.
CredentialSetups ==
  { <<"tok_old", "", "">>, <<"", "tok_env", "">>, <<"tok_old", "tok_env", "">>,
    <<"", "", "tok_file">>, <<"", "", "">> }

PromptAnswers == {"tok_new", "tok_old", ""}

\* What a remote call may throw.
RemoteErrors ==
  { RemoteError(401, "Request failed with status 401 Unauthorized"),
    RemoteError(404, "Request failed with status 404 Not Found"),
    RemoteError(0, "Invalid token provided"),
    RemoteError(0, "fetch failed"),
    [origin |-> "remote", status |-> 0, hasMessage |-> FALSE, message |-> ""] }

\* response.statusText of a search response that is not ok.
SearchStatusTexts == {"Unauthorized", "Not Found", ""}

NoInputSchema == [properties |-> <<>>, required |-> <<>>]
PromptSchema ==
  [properties |-> << [k |-> "prompt", v |-> Field("string")],
                     [k |-> "width", v |-> WithMax(WithMin(Field("integer"), 64), 1024)],
                     [k |-> "mode", v |-> WithEnum(Field("string"), <<Str("fast"), Str("quality")>>)] >>,
   required |-> <<"prompt">>]
AuthSchema ==
  [properties |-> << [k |-> "prompt", v |-> Field("string")],
                     [k |-> "authentication", v |-> Field("string")] >>,
   required |-> <<"prompt", "authentication">>]
\* The Input schemas models.versions.get may return.
Schemas == {NoInputSchema, PromptSchema, AuthSchema}

\* What replicate.wait may return: a terminal status and prediction.error.
WaitResults ==
  { [status |-> "succeeded", error |-> "", output |-> "out.png"],
    [status |-> "failed", error |-> "", output |-> ""],
    [status |-> "failed", error |-> "CUDA out of memory", output |-> ""],
    [status |-> "failed", error |-> "Authentication failed while downloading weights",
     output |-> ""],
    [status |-> "canceled", error |-> "", output |-> ""] }

\* A prediction as the commands read it: id, status, error and output ("" for
\* a field that is not set).
Prediction(id, status, error, output) ==
  [id |-> id, status |-> status, error |-> error, output |-> output]
NoPrediction == Prediction("", "", "", "")

NoOutcome == [kind |-> "none", message |-> ""]
Success(message) == [kind |-> "success", message |-> message]
Failure(message) == [kind |-> "error", message |-> message]

\* The text each command's catch block puts before the original message.
FailurePrefix(cmd) ==
  CASE cmd \in PredictionCmds -> "Failed to create prediction: "
    [] cmd = "models:list" -> "Failed to list models: "
    [] cmd = "models:show" -> "Failed to get model details: "
    [] cmd = "predictions:list" -> "Failed to list predictions: "

RemotePcs ==
  {"models.get", "versions.get", "predictions.create", "wait", "models.list", "search",
   "predictions.list"}

Init ==
  /\ inv \in Invocations
  /\ pc = "run"
  /\ \E cs \in CredentialSetups :
       configToken = cs[1] /\ envToken = cs[2] /\ dotenvToken = cs[3]
  /\ client = NullClient
  /\ nextClient = 1
  /\ replicate = NullClient
  /\ created = 0
  /\ recoveries = 0
  /\ runs = 0
  /\ caught = NoError
  /\ failedClient = 0
  /\ events = <<>>
  /\ outcome = NoOutcome
  /\ fin = "none"
  /\ fout = "none"
  /\ prediction = NoPrediction
  /\ job = "none"

(***************************************************************************)
(* The commands.  One action is one continuation of run(): from one await  *)
(* (a remote call, a prompt, this.parse) to the next.  `rep` is the client *)
(* the attempt holds, `cached` and `cfg` the cached client and the stored  *)
(* token as the continuation has left them so far.                         *)
(***************************************************************************)
\* The continuation goes on to its next await, or returns.
Goto(next, out, cached, cfg) ==
  /\ pc' = next
  /\ outcome' = out
  /\ client' = cached
  /\ configToken' = cfg
  /\ caught' = NoError
  /\ UNCHANGED <<failedClient, recoveries, events>>

\* The catch block of run(): handleAuthError(error), which rethrows an error
\* that is not an auth error (reported by this.error) and otherwise deletes the
\* token, resets the client and awaits the prompt of promptForAuthentication.
Catch(error, rep, cached, cfg) ==
  /\ caught' = error
  /\ failedClient' = rep.id
  /\ IF isAuthError(error)
     THEN /\ recoveries < MaxRecoveries
          /\ recoveries' = recoveries + 1
          /\ configToken' = deleteToken(cfg)
          /\ client' = resetClient(cached)
          /\ events' = <<"deleteToken", "resetClient", "prompt">>
          /\ pc' = "recoverPrompt"
          /\ outcome' = outcome
     ELSE /\ recoveries' = recoveries
          /\ configToken' = cfg
          /\ client' = cached
          /\ events' = <<>>
          /\ pc' = "failed"
          /\ outcome' = Failure(FailurePrefix(inv.cmd) \o MessageText(error))

\* const [modelOwner, modelName] = args.model.split('/'); !modelOwner || !modelName
BadModel(model) ==
  LET parts == Split(model, "/")
  IN  parts[1] = "" \/ Len(parts) < 2 \/ parts[2] = ""

\* The try block up to its first remote call.
EnterBody(rep, cached, cfg) ==
  IF inv.cmd \in ModelCmds
  THEN IF BadModel(inv.model)
       THEN Catch(LocalError("Model must be in format: owner/model-name"), rep, cached, cfg)
       ELSE Goto("models.get", outcome, cached, cfg)
  ELSE IF inv.cmd = "models:list"
  THEN Goto(IF inv.search THEN "search" ELSE "models.list", outcome, cached, cfg)
  ELSE Goto("predictions.list", outcome, cached, cfg)

\* run(): this.parse, then getClient(), then the try block.
Run ==
  /\ pc = "run"
  /\ runs' = runs + 1
  /\ LET g == getReplicateClient(client, configToken, envToken, dotenvToken, nextClient)
     IN  /\ envToken' = g.env
         /\ nextClient' = g.next
         /\ IF g.client.id = 0
            THEN /\ replicate' = replicate
                 /\ Goto("authPrompt", outcome, client, configToken)
            ELSE /\ replicate' = g.client
                 /\ EnterBody(g.client, g.client, configToken)
  /\ UNCHANGED <<inv, dotenvToken, created, fin, fout, prediction, job>>

\* getClient() found no token: promptForAuthentication's prompt is answered.
FirstUsePrompt ==
  /\ pc = "authPrompt"
  /\ \E token \in PromptAnswers :
       LET cfg == writeToken(configToken, token)
           g   == getReplicateClient(resetClient(client), cfg, envToken, dotenvToken,
                                     nextClient)
       IN  /\ envToken' = g.env
           /\ nextClient' = g.next
           /\ IF g.client.id = 0
              THEN /\ replicate' = replicate
                   /\ Goto("failed",
                           Failure("Failed to initialize Replicate client after authentication"),
                           g.client, cfg)
              ELSE /\ replicate' = g.client
                   /\ EnterBody(g.client, g.client, cfg)
  /\ UNCHANGED <<inv, dotenvToken, created, runs, fin, fout, prediction, job>>

\* handleAuthError's prompt is answered: the token is saved, the client reset,
\* and the catch block calls this.run() again.
RecoveryPrompt ==
  /\ pc = "recoverPrompt"
  /\ \E token \in PromptAnswers :
       /\ configToken' = writeToken(configToken, token)
       /\ client' = resetClient(client)
  /\ events' = events \o <<"writeToken", "resetClient", "run">>
  /\ pc' = "run"
  /\ UNCHANGED <<inv, envToken, dotenvToken, nextClient, replicate, created, recoveries,
                 runs, caught, failedClient, outcome, fin, fout, prediction, job>>

\* A remote call throws.
RemoteThrows ==
  /\ pc \in RemotePcs
  /\ \E e \in RemoteErrors :
       /\ pc = "search" => e = RemoteError(0, "fetch failed")
       /\ Catch(e, replicate, client, configToken)
  /\ UNCHANGED <<inv, envToken, dotenvToken, nextClient, replicate, created, runs, fin, fout, prediction, job>>

\* What command `cmd` does with the model models.get returned; `latest`
\* tells whether the model has a latest_version.
ModelsGetStep(cmd, latest) ==
  IF cmd = "run" /\ ~latest
  THEN Catch(LocalError("Model has no published versions"), replicate, client,
             configToken)
  ELSE Goto("versions.get", outcome, client, configToken)

ModelsGetReturns ==
  /\ pc = "models.get"
  /\ \E latest \in BOOLEAN : ModelsGetStep(inv.cmd, latest)
  /\ UNCHANGED <<inv, envToken, dotenvToken, nextClient, replicate, created, runs, fin, fout, prediction, job>>

\* The tokens handed to parseInputArgs.
InputArgs(i) ==
  (IF i.inputFile # "" THEN <<"--input-file=" \o i.inputFile>> ELSE <<>>) \o i.argv

\* models.versions.get returns: models:show prints; run and predictions:create
\* parse and validate the input and issue predictions.create.
VersionsGetReturns ==
  /\ pc = "versions.get"
  /\ \E schema \in Schemas :
       LET parsed     == parseInputArgs(InputArgs(inv), FileSystem)
           validation == validateInput(parsed.input, schema)
       IN  IF inv.cmd = "models:show"
           THEN Goto("done", Success("Model: " \o inv.model), client, configToken)
           ELSE IF ~parsed.ok
           THEN Catch(LocalError(parsed.message), replicate, client, configToken)
           ELSE IF ~validation.valid
           THEN Catch(LocalError("Input validation failed:\n"
                                 \o Join(validation.errors, "\n")),
                      replicate, client, configToken)
           ELSE Goto("predictions.create", outcome, client, configToken)
  /\ UNCHANGED <<inv, envToken, dotenvToken, nextClient, replicate, created, runs, fin, fout, prediction, job>>

\* The status predictions.create may report for the new prediction.
InitialStatuses == {"starting", "processing"}

\* JSON.stringify of a string output.
OutputJSON(output) == "\"" \o output \o "\""

CreatedMessageWithoutStatus(p) == "\nPrediction created successfully!\nID: " \o p.id

CreatedMessage(p) ==
  "\nPrediction created successfully!\nID: " \o p.id \o "\nStatus: " \o p.status
    \o "\n\nUse \"replicate predictions:get " \o p.id \o "\" to check status."

CompletedMessage(p) ==
  "Prediction completed successfully!\nOutput:\n" \o OutputJSON(p.output)

\* predictions.create returns the new prediction.
CreateReturns ==
  /\ pc = "predictions.create"
  /\ created' = created + 1
  /\ \E status \in InitialStatuses :
       LET p == Prediction("p" \o ToString(created + 1), status, "", "")
       IN  /\ prediction' = p
           /\ IF inv.wait
              THEN Goto("wait", outcome, client, configToken)
              ELSE Goto("done", Success(CreatedMessage(p)), client, configToken)
  /\ UNCHANGED <<inv, envToken, dotenvToken, nextClient, replicate, runs, fin, fout, job>>

\* replicate.wait returns the prediction in a terminal status.
WaitReturns ==
  /\ pc = "wait"
  /\ \E r \in WaitResults :
       LET p == Prediction(prediction.id, r.status, r.error, r.output)
       IN  /\ prediction' = p
           /\ IF p.status = "succeeded"
              THEN Goto("done", Success(CompletedMessage(p)), client, configToken)
              ELSE IF p.status = "failed"
              THEN Catch(LocalError("Prediction failed: "
                                    \o (IF p.error # "" THEN p.error ELSE "Unknown error")),
                         replicate, client, configToken)
              ELSE Catch(LocalError("Prediction was canceled"), replicate, client, configToken)
  /\ UNCHANGED <<inv, envToken, dotenvToken, nextClient, replicate, created, runs, fin, fout,
                 job>>

ModelsListReturns ==
  /\ pc = "models.list"
  /\ Goto("done", Success("Available Models:"), client, configToken)
  /\ UNCHANGED <<inv, envToken, dotenvToken, nextClient, replicate, created, runs, fin, fout, prediction, job>>

\* The search request answers: ok, or not ok with a status text.
SearchReturns ==
  /\ pc = "search"
  /\ \/ Goto("done", Success("Available Models:"), client, configToken)
     \/ \E text \in SearchStatusTexts :
          Catch(RemoteError(0, "Search failed: " \o text), replicate, client, configToken)
  /\ UNCHANGED <<inv, envToken, dotenvToken, nextClient, replicate, created, runs, fin, fout, prediction, job>>

PredictionsListReturns ==
  /\ pc = "predictions.list"
  /\ Goto("done", Success("Your Predictions"), client, configToken)
  /\ UNCHANGED <<inv, envToken, dotenvToken, nextClient, replicate, created, runs, fin, fout, prediction, job>>

Next ==
  \/ Run
  \/ FirstUsePrompt
  \/ RecoveryPrompt
  \/ RemoteThrows
  \/ ModelsGetReturns
  \/ VersionsGetReturns
  \/ CreateReturns
  \/ WaitReturns
  \/ ModelsListReturns
  \/ SearchReturns
  \/ PredictionsListReturns

Spec == Init /\ [][Next]_vars

(***************************************************************************)
(* Specifications of the single functions: Init draws the argument, one    *)
(* action applies the function.  The command's variables stay as they are. *)
(***************************************************************************)
Idle ==
  /\ inv = Invocation("predictions:list", FALSE, FALSE, "", "", <<>>)
  /\ configToken = "tok_old" /\ envToken = "" /\ dotenvToken = ""
  /\ client = [id |-> 1, auth |-> "tok_old"]
  /\ nextClient = 2
  /\ replicate = [id |-> 1, auth |-> "tok_old"]
  /\ created = 0 /\ recoveries = 0 /\ runs = 1
  /\ caught = NoError /\ failedClient = 0 /\ events = <<>>
  /\ outcome = NoOutcome
  /\ prediction = NoPrediction /\ job = "none"

\* The longest argument list parseInputArgs is applied to.
MaxArgs == 3

ParseTokens ==
  {"--input-file=in.json", "--input-file", "in.json", "--prompt=dog", "--width=512",
   "--prompt=a=b", "prompt=x", "--verbose", "--input-file=other.json",
   "--input-file=nope.json", "--input-file=bad.json", "--input-file=a=b.json"}

RECURSIVE SeqsUpTo(_, _)
SeqsUpTo(S, n) ==
  IF n = 0 THEN {<<>>}
  ELSE SeqsUpTo(S, n - 1) \cup {Append(q, x) : q \in {r \in SeqsUpTo(S, n - 1) : Len(r) = n - 1}, x \in S}

InitParse ==
  /\ Idle
  /\ pc = "call"
  /\ fin \in SeqsUpTo(ParseTokens, MaxArgs)
  /\ fout = "none"

ParseStep ==
  /\ pc = "call"
  /\ pc' = "return"
  /\ fout' = parseInputArgs(fin, FileSystem)
  /\ UNCHANGED <<inv, configToken, envToken, dotenvToken, client, nextClient, replicate,
                 created, recoveries, runs, caught, failedClient, events, outcome, fin,
                 prediction, job>>

NextParse == ParseStep

SpecParse == InitParse /\ [][NextParse]_vars

\* The inputs validateInput is applied to: each field absent or with one of its
\* values, in either insertion order.
FieldValues(k) ==
  CASE k = "prompt" -> {Str("a cat"), Num(5), Null}
    [] k = "width" -> {Num(512), Num(2048), Num(0), Str("wide")}
    [] k = "mode" -> {Str("fast"), Str("slow"), Bool(TRUE)}
    [] k = "extra" -> {Num(1)}

Reverse(q) == [i \in 1..Len(q) |-> q[Len(q) + 1 - i]]

RECURSIVE ObjectsOver(_)
ObjectsOver(keys) ==
  IF Len(keys) = 0 THEN {<<>>}
  ELSE LET rest == ObjectsOver(Tail(keys))
       IN  rest \cup {<<[k |-> keys[1], v |-> v]>> \o o : v \in FieldValues(keys[1]), o \in rest}

ValidateInputs ==
  LET os == ObjectsOver(<<"prompt", "width", "mode", "extra">>)
  IN  os \cup {Reverse(o) : o \in os}

SeedSchema ==
  [properties |-> << [k |-> "seed", v |-> Field("integer")],
                     [k |-> "prompt", v |-> Field("string")],
                     [k |-> "width", v |-> WithMax(Field("number"), 1024)],
                     [k |-> "mode", v |-> Field("boolean")] >>,
   required |-> <<"seed", "prompt">>]

ValidateSchemas == {NoInputSchema, PromptSchema, SeedSchema}

InitValidate ==
  /\ Idle
  /\ pc = "call"
  /\ fin \in [input : ValidateInputs, schema : ValidateSchemas]
  /\ fout = "none"

ValidateStep ==
  /\ pc = "call"
  /\ pc' = "return"
  /\ fout' = validateInput(fin.input, fin.schema)
  /\ UNCHANGED <<inv, configToken, envToken, dotenvToken, client, nextClient, replicate,
                 created, recoveries, runs, caught, failedClient, events, outcome, fin,
                 prediction, job>>

NextValidate == ValidateStep

SpecValidate == InitValidate /\ [][NextValidate]_vars

\* parseInputArgs over --key=value tokens alone: every kind of value the
\* coercion tells apart, and values that hold further '=' characters.
MaxCoerceArgs == 2

CoerceValues ==
  {"512", "-3", "007", "+5", " 7 ", "a cat", "true", "false", "null", "True", "",
   " ", "12abc", "-", "\"hi\"", "[\"a\",\"b\"]", "{\"a\": 1}", "[1",
   "a=b", "=x", "1=2", "x==y"}

CoerceTokens ==
  {"--a=" \o v : v \in CoerceValues} \cup {"--b=512", "--b=a=b", "--=5", "--b="}

InitCoerce ==
  /\ Idle
  /\ pc = "call"
  /\ fin \in SeqsUpTo(CoerceTokens, MaxCoerceArgs)
  /\ fout = "none"

CoerceStep ==
  /\ pc = "call"
  /\ pc' = "return"
  /\ fout' = parseInputArgs(fin, FileSystem)
  /\ UNCHANGED <<inv, configToken, envToken, dotenvToken, client, nextClient, replicate,
                 created, recoveries, runs, caught, failedClient, events, outcome, fin,
                 prediction, job>>

NextCoerce == CoerceStep

SpecCoerce == InitCoerce /\ [][NextCoerce]_vars

\* validateInput over schemas that use every keyword: required names (one of
\* them a name Object.prototype defines), the five declared types, bounds set
\* and unset, a bound of 0, and enums on string and on number fields.
SchemaFieldValues(k) ==
  CASE k = "prompt" -> {Str("a cat"), Null, Undefined, Num(5)}
    [] k = "width" -> {Num(-1), Num(0), Num(1024), Num(1025), Str("wide"), Str("2048")}
    [] k = "mode" -> {Str("fast"), Str("turbo"), Num(1), Num(2)}
    [] k = "tags" -> {Arr("[\"a\"]"), Str("a")}
    [] k = "toString" -> {Num(1), Null}

RECURSIVE SchemaObjectsOver(_)
SchemaObjectsOver(keys) ==
  IF Len(keys) = 0 THEN {<<>>}
  ELSE LET rest == SchemaObjectsOver(Tail(keys))
       IN  rest \cup {<<[k |-> keys[1], v |-> v]>> \o o :
                        v \in SchemaFieldValues(keys[1]), o \in rest}

SchemaInputs == SchemaObjectsOver(<<"prompt", "width", "mode", "tags", "toString">>)

TextSchema ==
  [properties |-> << [k |-> "prompt", v |-> Field("string")],
                     [k |-> "width", v |-> WithMax(WithMin(Field("number"), 0), 1024)],
                     [k |-> "mode", v |-> WithEnum(Field("string"), <<Str("fast"), Str("slow")>>)],
                     [k |-> "tags", v |-> Field("array")] >>,
   required |-> <<"prompt", "constructor">>]

CountSchema ==
  [properties |-> << [k |-> "width", v |-> WithMin(Field("integer"), 1)],
                     [k |-> "mode", v |-> WithEnum(Field("number"), <<Num(1)>>)],
                     [k |-> "tags", v |-> Field("boolean")],
                     [k |-> "prompt", v |-> Field("number")] >>,
   required |-> <<"width", "tags">>]

FieldSchemas == {NoInputSchema, TextSchema, CountSchema}

InitFields ==
  /\ Idle
  /\ pc = "call"
  /\ fin \in [input : SchemaInputs, schema : FieldSchemas]
  /\ fout = "none"

FieldsStep ==
  /\ pc = "call"
  /\ pc' = "return"
  /\ fout' = validateInput(fin.input, fin.schema)
  /\ UNCHANGED <<inv, configToken, envToken, dotenvToken, client, nextClient, replicate,
                 created, recoveries, runs, caught, failedClient, events, outcome, fin,
                 prediction, job>>

NextFields == FieldsStep

SpecFields == InitFields /\ [][NextFields]_vars

\* The errors handleAuthError is applied to: every status with every message.
ClassifyStatuses == {0, 200, 400, 401, 403, 404, 500}
ClassifyMessages ==
  {"Unauthorized", "UNAUTHORIZED", "unauthorized access", "Authentication required",
   "authentication", "Invalid Token", "invalid token: expired", "invalid  token",
   "invalidtoken", "unauthorised", "authenticat", "Not Found", "", "token invalid",
   "401", "Forbidden"}
ClassifyErrors ==
  {RemoteError(st, m) : st \in ClassifyStatuses, m \in ClassifyMessages}
  \cup {[origin |-> "remote", status |-> st, hasMessage |-> FALSE, message |-> ""] :
          st \in ClassifyStatuses}

InitClassify ==
  /\ Idle
  /\ pc = "predictions.list"
  /\ fin \in ClassifyErrors
  /\ fout = "none"

\* predictions.list throws the error and the catch block handles it.
ClassifyStep ==
  /\ pc = "predictions.list"
  /\ Catch(fin, replicate, client, configToken)
  /\ UNCHANGED <<inv, envToken, dotenvToken, nextClient, replicate, created, runs, fin, fout, prediction, job>>

NextClassify == ClassifyStep

SpecClassify == InitClassify /\ [][NextClassify]_vars

(***************************************************************************)
(* predictions:get [--watch] [--json].  `job` is the status the remote     *)
(* service holds for the prediction, `prediction` the last object a fetch  *)
(* returned, `events` what the progress line of the terminal shows.        *)
(***************************************************************************)
GetInvocation(id, json, watch) ==
  [cmd |-> "predictions:get", wait |-> FALSE, search |-> FALSE, model |-> "",
   inputFile |-> "", argv |-> <<id>>, id |-> id, json |-> json, watch |-> watch]

GetInvocations == {GetInvocation("p1", j, w) : j \in BOOLEAN, w \in BOOLEAN}

\* The statuses the service reports; the command only compares them.
JobStatuses == {"starting", "processing", "succeeded", "failed", "canceled", "aborted"}

\* Starting -> Processing -> {Succeeded | Failed | Canceled}, and whatever
\* else the service may answer once the job has left the first two.
JobSuccessors(status) ==
  CASE status = "starting" -> {"processing", "failed", "canceled", "aborted"}
    [] status = "processing" -> {"succeeded", "failed", "canceled", "aborted"}
    [] OTHER -> {}

\* What predictions.get returns for the job as it stands.
Fetched(id, status) ==
  Prediction(id, status,
             IF status = "failed" THEN "CUDA out of memory" ELSE "",
             IF status = "succeeded" THEN "out.png" ELSE "")

\* while (prediction.status === 'starting' || prediction.status === 'processing')
WatchContinuesOnlyStarting(status) == status = "starting"

WatchContinues(status) == status = "starting" \/ status = "processing"

\* process.stdout.write(`\rStatus: ${prediction.status}...`)
ProgressLine(p) == "\rStatus: " \o p.status \o "..."

\* The output of the command: the prediction as JSON, or its fields line by line.
GetReport(p, json) ==
  IF json
  THEN "{\n  \"id\": \"" \o p.id \o "\",\n  \"status\": \"" \o p.status \o "\"\n}"
  ELSE "\nPrediction: " \o p.id \o "\nStatus: " \o p.status
         \o (IF p.output # "" THEN "\n\nOutput:\n" \o p.output ELSE "")
         \o (IF p.error # "" THEN "\n\nError: " \o p.error ELSE "")

\* The two BaseCommand.getClient bodies command-base.js is given: the
\* synchronous one returns the client or null, the async one a promise.
BaseCommands == {"sync", "async"}

InitWatch ==
  /\ inv \in GetInvocations
  /\ pc = "run"
  /\ \E cs \in CredentialSetups :
       configToken = cs[1] /\ envToken = cs[2] /\ dotenvToken = cs[3]
  /\ client = NullClient
  /\ nextClient = 1
  /\ replicate = NullClient
  /\ created = 0 /\ recoveries = 0 /\ runs = 0
  /\ caught = NoError /\ failedClient = 0
  /\ events = <<>>
  /\ outcome = NoOutcome
  /\ fin = "none" /\ fout = "none"
  /\ prediction = NoPrediction
  /\ job \in JobStatuses

\* catch (error) { this.error(`Failed to get prediction: ${error.message}`) }
GetFails(error) ==
  /\ caught' = error
  /\ pc' = "failed"
  /\ outcome' = Failure("Failed to get prediction: " \o MessageText(error))

\* The fetched prediction is either polled again or reported.
GetContinue(p) ==
  /\ prediction' = p
  /\ caught' = NoError
  /\ IF inv.watch /\ WatchContinues(p.status)
     THEN pc' = "sleep" /\ outcome' = outcome
     ELSE pc' = "done" /\ outcome' = Success(GetReport(p, inv.json))

\* run() up to its first await on a remote call: this.getClient() is not
\* awaited, so a null client or a promise makes replicate.predictions.get throw.
GetRun ==
  /\ pc = "run"
  /\ inv.cmd = "predictions:get"
  /\ runs' = runs + 1
  /\ LET r == getReplicateClient(client, configToken, envToken, dotenvToken, nextClient)
     IN  /\ client' = r.client
         /\ envToken' = r.env
         /\ nextClient' = r.next
         /\ \E base \in BaseCommands :
              IF base = "async"
              THEN /\ replicate' = NullClient
                   /\ GetFails(LocalError("Cannot read properties of undefined (reading 'get')"))
              ELSE /\ replicate' = r.client
                   /\ IF r.client = NullClient
                      THEN GetFails(LocalError("Cannot read properties of null (reading 'predictions')"))
                      ELSE pc' = "predictions.get" /\ caught' = NoError /\ outcome' = outcome
  /\ UNCHANGED <<inv, configToken, dotenvToken, created, recoveries, failedClient, events,
                 fin, fout, prediction, job>>

\* let prediction = await replicate.predictions.get(args.id)
GetReturns ==
  /\ pc = "predictions.get"
  /\ inv.cmd = "predictions:get"
  /\ GetContinue(Fetched(inv.id, job))
  /\ UNCHANGED <<inv, configToken, envToken, dotenvToken, client, nextClient, replicate,
                 created, recoveries, runs, failedClient, events, fin, fout, job>>

\* await new Promise((resolve) => setTimeout(resolve, 1000))
SleepElapses ==
  /\ pc = "sleep"
  /\ pc' = "poll"
  /\ UNCHANGED <<inv, configToken, envToken, dotenvToken, client, nextClient, replicate,
                 created, recoveries, runs, caught, failedClient, events, outcome, fin, fout,
                 prediction, job>>

\* prediction = await replicate.predictions.get(args.id) inside the loop,
\* the progress line, and the loop condition.
PollReturns ==
  /\ pc = "poll"
  /\ LET p == Fetched(inv.id, job)
     IN  /\ events' = IF inv.json THEN events ELSE <<ProgressLine(p)>>
         /\ GetContinue(p)
  /\ UNCHANGED <<inv, configToken, envToken, dotenvToken, client, nextClient, replicate,
                 created, recoveries, runs, failedClient, fin, fout, job>>

\* Either fetch rejects.
GetThrows ==
  /\ pc \in {"predictions.get", "poll"}
  /\ inv.cmd = "predictions:get"
  /\ \E e \in RemoteErrors : GetFails(e)
  /\ UNCHANGED <<inv, configToken, envToken, dotenvToken, client, nextClient, replicate,
                 created, recoveries, runs, failedClient, events, fin, fout, prediction, job>>

\* The remote service moves the job on; the command never assigns a status.
JobAdvances ==
  /\ \E next \in JobSuccessors(job) : job' = next
  /\ UNCHANGED <<inv, pc, configToken, envToken, dotenvToken, client, nextClient, replicate,
                 created, recoveries, runs, caught, failedClient, events, outcome, fin, fout,
                 prediction>>

GetCommandStep == GetRun \/ GetReturns \/ SleepElapses \/ PollReturns \/ GetThrows

NextWatch ==
  \/ GetRun
  \/ GetReturns
  \/ SleepElapses
  \/ PollReturns
  \/ GetThrows
  \/ JobAdvances

SpecWatch == InitWatch /\ [][NextWatch]_vars

\* The timer fires and every awaited fetch settles: a pending continuation
\* of the command is eventually run.
SpecWatchLive == SpecWatch /\ WF_vars(GetCommandStep)

(***************************************************************************)
(* getApiToken applied to one environment: the stored token, the           *)
(* REPLICATE_API_TOKEN variable (unset, empty or a token), and the         *)
(* .env.local and .env files of the working directory (absent, without a   *)
(* token, or with one).                                                    *)
(***************************************************************************)
Unset == "<unset>"
NoFile == "<no file>"

StoredTokens == {"", "tok_cfg"}
EnvVarValues == {Unset, "", "tok_env"}
EnvLocalFiles == {NoFile, "", "tok_local"}
EnvFiles == {NoFile, "", "tok_file"}

\* process.env.REPLICATE_API_TOKEN after dotenv.config({ path }) has read
\* `file`: dotenv never replaces a variable the environment already has.
dotenvConfig(envVar, file) ==
  IF envVar # Unset \/ file \in {NoFile, ""} THEN envVar ELSE file

\* fs.existsSync(envPath) ? .env.local : .env
SelectedEnvFile(local, dotf) == IF local # NoFile THEN local ELSE dotf

\* process.env.REPLICATE_API_TOKEN read as a token ("" when falsy).
EnvValue(envVar) == IF envVar = Unset THEN "" ELSE envVar

\* What step 3 of getApiToken finds in the variable after the dotenv load.
DotenvValue(envVar, local, dotf) ==
  EnvValue(dotenvConfig(envVar, SelectedEnvFile(local, dotf)))

TokenEnvironments ==
  [cfg : StoredTokens, env : EnvVarValues, local : EnvLocalFiles, dotf : EnvFiles]

InitToken ==
  /\ Idle
  /\ pc = "call"
  /\ fin \in TokenEnvironments
  /\ fout = "none"

TokenStep ==
  /\ pc = "call"
  /\ pc' = "return"
  /\ fout' = getApiToken(fin.cfg, EnvValue(fin.env),
                          DotenvValue(fin.env, fin.local, fin.dotf))
  /\ UNCHANGED <<inv, configToken, envToken, dotenvToken, client, nextClient, replicate,
                 created, recoveries, runs, caught, failedClient, events, outcome, fin,
                 prediction, job>>

NextToken == TokenStep

SpecToken == InitToken /\ [][NextToken]_vars

(***************************************************************************)
(* One process in which the operations that touch the stored token or the  *)
(* cached client follow one another, in any order: getClient with its      *)
(* first-use prompt, handleAuthError with its prompt, auth:login,          *)
(* auth:logout and config:set.                                             *)
(***************************************************************************)
\* How many client instances one process is followed through.
MaxClients == 4

\* What is typed at the auth:login prompt or passed as config:set's value.
TypedTokens == {"tok_new", " tok_new ", "tok_old", "  ", ""}
ConfigKeys == {"token", "model"}

\* hasToken(): readToken() !== null
hasToken(cfg) == readToken(cfg) # ""

\* AuthLogin.run once the prompt is answered, without the resetClient() call.
AuthLoginKeepsClient(cfg, c, token) ==
  IF token = "" \/ Len(Trim(token)) = 0
  THEN [cfg |-> cfg, client |-> c, out |-> Failure("Token cannot be empty")]
  ELSE [cfg |-> writeToken(cfg, Trim(token)), client |-> c,
        out |-> Success("Authentication successful!")]

\* AuthLogin.run once the prompt is answered: the stored token, the cached
\* client and the outcome it leaves.
AuthLogin(cfg, c, token) ==
  IF token = "" \/ Len(Trim(token)) = 0
  THEN [cfg |-> cfg, client |-> c, out |-> Failure("Token cannot be empty")]
  ELSE [cfg |-> writeToken(cfg, Trim(token)), client |-> resetClient(c),
        out |-> Success("Authentication successful!")]

\* AuthLogout.run; `confirmed` is the answer to its confirmation.
AuthLogout(cfg, c, confirmed) ==
  IF ~hasToken(cfg)
  THEN [cfg |-> cfg, client |-> c, out |-> Success("No stored token found.")]
  ELSE IF ~confirmed
  THEN [cfg |-> cfg, client |-> c, out |-> Success("Logout cancelled.")]
  ELSE [cfg |-> deleteToken(cfg), client |-> resetClient(c), out |-> Success("Token removed")]

\* ConfigSet.run
ConfigSet(cfg, c, key, value) ==
  IF key # "token"
  THEN [cfg |-> cfg, client |-> c,
        out |-> Failure("Currently only \"token\" is a supported configuration key")]
  ELSE IF value = "" \/ Len(Trim(value)) = 0
  THEN [cfg |-> cfg, client |-> c, out |-> Failure("Value cannot be empty")]
  ELSE [cfg |-> writeToken(cfg, Trim(value)), client |-> resetClient(c),
        out |-> Success("Configuration updated")]

InitSession ==
  /\ inv = Invocation("predictions:list", FALSE, FALSE, "", "", <<>>)
  /\ pc = "idle"
  /\ \E cs \in CredentialSetups :
       configToken = cs[1] /\ envToken = cs[2] /\ dotenvToken = cs[3]
  /\ client = NullClient
  /\ nextClient = 1
  /\ replicate = NullClient
  /\ created = 0 /\ recoveries = 0 /\ runs = 0
  /\ caught = NoError /\ failedClient = 0
  /\ events = <<>>
  /\ outcome = NoOutcome
  /\ fin = "none" /\ fout = "none"
  /\ prediction = NoPrediction
  /\ job = "none"

\* The variables no operation of the session touches.
SessionFrame ==
  UNCHANGED <<inv, dotenvToken, created, recoveries, runs, caught, failedClient, events,
              fin, fout, prediction, job>>

\* A command calls getClient(): the cached client, or a new one, or the prompt.
SessionGetClient ==
  /\ pc = "idle"
  /\ nextClient <= MaxClients
  /\ LET g == getReplicateClient(client, configToken, envToken, dotenvToken, nextClient)
     IN  /\ client' = g.client
         /\ envToken' = g.env
         /\ nextClient' = g.next
         /\ replicate' = g.client
         /\ pc' = IF g.client.id = 0 THEN "authPrompt" ELSE "idle"
  /\ UNCHANGED <<configToken, outcome>>
  /\ SessionFrame

\* promptForAuthentication inside getClient, and the second getReplicateClient().
SessionFirstUsePrompt ==
  /\ pc = "authPrompt"
  /\ nextClient <= MaxClients
  /\ \E token \in PromptAnswers :
       LET cfg == writeToken(configToken, token)
           g   == getReplicateClient(resetClient(client), cfg, envToken, dotenvToken,
                                     nextClient)
       IN  /\ configToken' = cfg
           /\ client' = g.client
           /\ envToken' = g.env
           /\ nextClient' = g.next
           /\ replicate' = g.client
           /\ outcome' = IF g.client.id = 0
                         THEN Failure("Failed to initialize Replicate client after authentication")
                         ELSE outcome
  /\ pc' = "idle"
  /\ SessionFrame

\* handleAuthError on an auth error: deleteToken(), resetClient(), then the prompt.
SessionHandleAuthError ==
  /\ pc = "idle"
  /\ replicate # NullClient
  /\ configToken' = deleteToken(configToken)
  /\ client' = resetClient(client)
  /\ pc' = "recoverPrompt"
  /\ UNCHANGED <<envToken, nextClient, replicate, outcome>>
  /\ SessionFrame

\* promptForAuthentication inside handleAuthError.
SessionRecoveryPrompt ==
  /\ pc = "recoverPrompt"
  /\ \E token \in PromptAnswers :
       /\ configToken' = writeToken(configToken, token)
       /\ client' = resetClient(client)
  /\ pc' = "idle"
  /\ UNCHANGED <<envToken, nextClient, replicate, outcome>>
  /\ SessionFrame

AuthLoginRun ==
  /\ pc = "idle"
  /\ \E token \in TypedTokens :
       LET r == AuthLogin(configToken, client, token)
       IN  configToken' = r.cfg /\ client' = r.client /\ outcome' = r.out
  /\ UNCHANGED <<pc, envToken, nextClient, replicate>>
  /\ SessionFrame

AuthLogoutRun ==
  /\ pc = "idle"
  /\ \E confirmed \in BOOLEAN :
       LET r == AuthLogout(configToken, client, confirmed)
       IN  configToken' = r.cfg /\ client' = r.client /\ outcome' = r.out
  /\ UNCHANGED <<pc, envToken, nextClient, replicate>>
  /\ SessionFrame

ConfigSetRun ==
  /\ pc = "idle"
  /\ \E key \in ConfigKeys, value \in TypedTokens :
       LET r == ConfigSet(configToken, client, key, value)
       IN  configToken' = r.cfg /\ client' = r.client /\ outcome' = r.out
  /\ UNCHANGED <<pc, envToken, nextClient, replicate>>
  /\ SessionFrame

NextSession ==
  \/ SessionGetClient
  \/ SessionFirstUsePrompt
  \/ SessionHandleAuthError
  \/ SessionRecoveryPrompt
  \/ AuthLoginRun
  \/ AuthLogoutRun
  \/ ConfigSetRun

SpecSession == InitSession /\ [][NextSession]_vars

(***************************************************************************)
(* Properties                                                              *)
(***************************************************************************)
\* `needle` (lower case) occurs in `message` when letter case is ignored.
ContainsIgnoringCase(message, needle) ==
  \E i \in 1..(Len(message) - Len(needle) + 1) :
    \A j \in 1..Len(needle) : LowerChar(Char(message, i + j - 1)) = Char(needle, j)

\* An authentication-class error, as the specification words it.
AuthenticationClass(error) ==
  \/ error.status \in {401, 403}
  \/ /\ error.hasMessage
     /\ \E needle \in {"unauthorized", "authentication", "invalid token"} :
          ContainsIgnoringCase(error.message, needle)

\* C1: within one invocation auth recovery is performed at most once, also when
\* the retried attempt itself fails with an authentication-class error.
C1_AtMostOneRecovery == recoveries <= 1

\* C2: within one invocation of run or predictions:create, predictions.create
\* succeeds at most once, whichever remote call raised the error that
\* triggered the retry.
C2_CreateAtMostOnce == inv.cmd \in PredictionCmds => created <= 1

\* C3: on a permanently invalid credential path the command ends after its
\* single retry: once the retried attempt has caught an authentication-class
\* error of a remote call, the command has ended with a fatal error.
C3_RetryEndsFatally ==
  (runs >= 2 /\ caught.origin = "remote" /\ AuthenticationClass(caught))
    => pc = "failed"

\* The coerced value of the last --key=value token of `args` whose key is `k`.
CliKeys(args) == {TokenKey(args[i]) : i \in {j \in 1..Len(args) : IsKeyValueToken(args[j])}}
LastTokenFor(args, k) ==
  CHOOSE i \in 1..Len(args) :
    /\ IsKeyValueToken(args[i]) /\ TokenKey(args[i]) = k
    /\ \A j \in (i + 1)..Len(args) : ~(IsKeyValueToken(args[j]) /\ TokenKey(args[j]) = k)
CliValue(args, k) == Coerce(TokenValue(args[LastTokenFor(args, k)]))

\* The entries of the input file the arguments name ("" names none).
FileEntries(args) ==
  IF FindInputFile(args) = "" THEN <<>>
  ELSE JSONParse(FileSystem[PathResolve(FindInputFile(args))]).entries

\* C4: for every key present both in the input file and in a --key=value
\* token, the ParsedInput parseInputArgs returns holds the CLI-supplied value,
\* whatever the position of the input-file token among the arguments.
C4_CliWinsOverFile ==
  (pc = "return" /\ fout.ok) =>
    \A k \in ObjKeys(FileEntries(fin)) \cap CliKeys(fin) :
      ObjGet(fout.input, k) = CliValue(fin, k)

\* C4's case: a file token that follows a --key=value token whose key the file
\* also holds, with another value.
C4_Witness ==
  /\ pc = "return" /\ fout.ok
  /\ \E i \in 1..Len(fin), j \in 1..Len(fin) :
       /\ i < j
       /\ IsKeyValueToken(fin[i]) /\ IsFileToken(fin, j)
       /\ TokenKey(fin[i]) \in ObjKeys(FileEntries(fin))
       /\ ObjGet(FileEntries(fin), TokenKey(fin[i])) # CliValue(fin, TokenKey(fin[i]))
       /\ ObjGet(fout.input, TokenKey(fin[i])) = CliValue(fin, TokenKey(fin[i]))

\* C5: when the error caught from a remote call is not authentication-class,
\* the step that catches it deletes no token, resets no client, prompts nobody
\* and reports the error as the command's failure; the command is not re-run:
\* it takes no further step.
C5_NonAuthErrorPropagates ==
  /\ [][(caught = NoError /\ caught'.origin = "remote" /\ ~AuthenticationClass(caught'))
          => /\ configToken' = configToken
             /\ client' = client
             /\ recoveries' = recoveries
             /\ events' = <<>>
             /\ pc' = "failed"
             /\ outcome' = Failure(FailurePrefix(inv.cmd) \o MessageText(caught'))]_vars
  /\ [][~(pc = "failed" /\ caught.origin = "remote" /\ ~AuthenticationClass(caught))]_vars

\* C5's case: a remote call failed with an error that is not authentication-class
\* while a token was stored and a client cached.
C5_Witness ==
  /\ pc = "failed"
  /\ caught.origin = "remote" /\ ~AuthenticationClass(caught)
  /\ configToken = "tok_old" /\ client.id # 0

RecoveryUpToPrompt == <<"deleteToken", "resetClient", "prompt">>
RecoveryUpToRerun == RecoveryUpToPrompt \o <<"writeToken", "resetClient", "run">>

\* C6: on an authentication-class error the stored token is deleted and the
\* cached client reset before the prompt; the new token is persisted and the
\* client reset before the command is re-run; the retried attempt never uses
\* the client instance that produced the error.
C6_RecoveryOrder ==
  /\ pc = "recoverPrompt" =>
       /\ events = RecoveryUpToPrompt
       /\ configToken = "" /\ client = NullClient
  /\ (pc = "run" /\ recoveries > 0) =>
       /\ events = RecoveryUpToRerun
       /\ configToken \in PromptAnswers /\ client = NullClient
  /\ (pc \in RemotePcs /\ recoveries > 0) =>
       /\ events = RecoveryUpToRerun
       /\ replicate.id # 0 /\ replicate.id # failedClient

\* C6's case: the retried attempt has issued its first remote call with a new client.
C6_Witness ==
  /\ recoveries = 1 /\ runs = 2 /\ pc \in RemotePcs
  /\ failedClient = 1 /\ replicate.id = 2 /\ replicate.auth = "tok_new"

\* C7: handleAuthError takes an error for authentication-class (and goes on to
\* recovery) exactly when its status is 401 or 403 or its message contains,
\* case-insensitively, "unauthorized", "authentication" or "invalid token";
\* every other error is re-thrown and reported with its own message.
C7_Classification ==
  caught # NoError =>
    /\ pc = "recoverPrompt" <=> AuthenticationClass(caught)
    /\ pc = "failed" <=> ~AuthenticationClass(caught)
    /\ pc = "failed" => outcome = Failure(FailurePrefix(inv.cmd) \o MessageText(caught))

\* C7's case: an error without a status whose message holds a needle in another
\* letter case has been classified.
C7_Witness ==
  /\ pc = "recoverPrompt"
  /\ caught.status = 0
  /\ caught.message = "Invalid Token"

IsInputError(message) ==
  \/ StartsWith(message, "Input file not found: ")
  \/ StartsWith(message, "Invalid JSON in input file: ")
  \/ StartsWith(message, "Input validation failed:\n")

\* C8: when parseInputArgs fails or validateInput returns valid = false, the
\* command reports the problem and ends, predictions.create not invoked.
C8_InputErrorEndsCommand ==
  [][(caught = NoError /\ caught'.origin = "local" /\ IsInputError(caught'.message))
       => /\ pc' = "failed"
          /\ created' = created
          /\ outcome' = Failure(FailurePrefix(inv.cmd) \o caught'.message)]_vars

\* C9: a prediction that ends failed or canceled in wait mode is reported as a
\* job failure and never enters auth recovery, whatever prediction.error is: no
\* token is deleted, no prompt shown, and the command ends.
C9_JobFailureNeverRecovers ==
  [][(pc = "wait" /\ caught'.origin = "local")
       => /\ pc' = "failed"
          /\ recoveries' = recoveries
          /\ configToken' = configToken
          /\ client' = client]_vars

Range(q) == {q[i] : i \in 1..Len(q)}

\* The violations of `input` against `schema`, as the messages that report them:
\* missing required fields, and for each declared field that is present its
\* type mismatch, its range violations (numeric values) and its enum violation
\* (string values).
MissingViolations(input, schema) ==
  {MissingError(f) : f \in {r \in Range(schema.required) :
                              ~ObjHas(input, r) \/ ObjGet(input, r).t = "null"}}

FieldViolations(k, v, f) ==
  (IF f.type \in {"integer", "number"} /\ v.t # "number"
   THEN {TypeError(k, "a number", v)} ELSE {})
  \cup (IF f.type = "string" /\ v.t # "string" THEN {TypeError(k, "a string", v)} ELSE {})
  \cup (IF f.type = "boolean" /\ v.t # "boolean" THEN {TypeError(k, "a boolean", v)} ELSE {})
  \cup (IF f.type \in {"integer", "number"} /\ v.t = "number" /\ f.hasMin /\ v.n < f.minimum
        THEN {MinError(k, f)} ELSE {})
  \cup (IF f.type \in {"integer", "number"} /\ v.t = "number" /\ f.hasMax /\ v.n > f.maximum
        THEN {MaxError(k, f)} ELSE {})
  \cup (IF f.type = "string" /\ v.t = "string" /\ f.hasEnum /\ v \notin Range(f.enum)
        THEN {EnumError(k, f)} ELSE {})

DeclaredViolations(input, schema) ==
  UNION {FieldViolations(k, ObjGet(input, k), ObjGet(schema.properties, k)) :
           k \in ObjKeys(input) \cap ObjKeys(schema.properties)}

IsMissingMessage(message) == StartsWith(message, "Missing required field: ")

\* C10: validateInput never short-circuits: its errors hold every violation of
\* every field, so a missing required field and a range, type or enum violation
\* of another field are reported together, the required-field errors first.
C10_AllViolationsReported ==
  pc = "return" =>
    /\ MissingViolations(fin.input, fin.schema) \subseteq Range(fout.errors)
    /\ DeclaredViolations(fin.input, fin.schema) \subseteq Range(fout.errors)
    /\ \A i, j \in 1..Len(fout.errors) :
         (IsMissingMessage(fout.errors[i]) /\ ~IsMissingMessage(fout.errors[j])) => i < j
    /\ fout.valid <=> (fout.errors = <<>>)

\* C10's case: a report with a missing required field and a range violation of
\* another field.
C10_Witness ==
  /\ pc = "return"
  /\ ~ObjHas(fin.input, "prompt")
  /\ MissingError("prompt") \in Range(fout.errors)
  /\ "Field width must be <= 1024" \in Range(fout.errors)

\* The messages of `errors` that name `field` as missing.
MissingCount(errors, field) ==
  Cardinality({i \in 1..Len(errors) : errors[i] = MissingError(field)})

\* C11: for every name in schema.required, validateInput reports a missing
\* required field exactly when the field is absent from the input or present
\* with value null or undefined, and then with exactly one error naming it.
C11_MissingExactlyWhenAbsent ==
  pc = "return" =>
    \A f \in Range(fin.schema.required) :
      LET absent == ~ObjHas(fin.input, f)
                    \/ ObjGet(fin.input, f).t \in {"null", "undefined"}
      IN  MissingCount(fout.errors, f) = (IF absent THEN 1 ELSE 0)

\* The runtime type of `v` is the one `type` declares.
RuntimeTypeMatches(v, type) ==
  CASE type \in {"integer", "number"} -> v.t = "number"
    [] type = "string" -> v.t = "string"
    [] type = "boolean" -> v.t = "boolean"
    [] type = "array" -> v.t = "array"

NamesField(message, k) == StartsWith(message, "Field " \o k \o " ")

\* C12: for every field declared in schema.properties and present in the input,
\* a value whose runtime type does not match the declared type (string, number,
\* integer, boolean or array) produces an error naming the field; integer and
\* number both accept any numeric value.
C12_TypeMismatchReported ==
  pc = "return" =>
    \A k \in ObjKeys(fin.input) \cap ObjKeys(fin.schema.properties) :
      LET v == ObjGet(fin.input, k)
          type == ObjGet(fin.schema.properties, k).type
      IN  /\ ~RuntimeTypeMatches(v, type)
               => \E i \in 1..Len(fout.errors) : NamesField(fout.errors[i], k)
          /\ (type \in {"integer", "number"} /\ v.t = "number")
               => TypeError(k, "a number", v) \notin Range(fout.errors)

HasErrorWith(errors, prefix) == \E i \in 1..Len(errors) : StartsWith(errors[i], prefix)

\* C13: for a field declared number or integer holding a numeric value v, a
\* minimum error is reported exactly when minimum is set (0 included) and
\* v < minimum, a maximum error exactly when maximum is set and v > maximum; a
\* value equal to a bound produces no range error.
C13_RangeErrorsExact ==
  pc = "return" =>
    \A k \in ObjKeys(fin.input) \cap ObjKeys(fin.schema.properties) :
      LET v == ObjGet(fin.input, k)
          f == ObjGet(fin.schema.properties, k)
      IN  (f.type \in {"integer", "number"} /\ v.t = "number") =>
            /\ HasErrorWith(fout.errors, "Field " \o k \o " must be >= ")
                 <=> (f.hasMin /\ v.n < f.minimum)
            /\ HasErrorWith(fout.errors, "Field " \o k \o " must be <= ")
                 <=> (f.hasMax /\ v.n > f.maximum)
            /\ (f.hasMin /\ v.n < f.minimum)
                 => ("Field " \o k \o " must be >= " \o ToString(f.minimum)) \in Range(fout.errors)
            /\ (f.hasMax /\ v.n > f.maximum)
                 => ("Field " \o k \o " must be <= " \o ToString(f.maximum)) \in Range(fout.errors)

\* C13's case: a value of -1 in a field whose minimum is 0.
C13_Witness ==
  /\ pc = "return"
  /\ fin.schema = TextSchema
  /\ ObjHas(fin.input, "width") /\ ObjGet(fin.input, "width") = Num(-1)
  /\ "Field width must be >= 0" \in Range(fout.errors)
  /\ ~HasErrorWith(fout.errors, "Field width must be <= ")

\* The allowed values as the error lists them.
AllowedList(enum) ==
  Join([i \in 1..Len(enum) |-> ValueToString(enum[i])], ", ")

\* C14: for a field declared string with an enum, an error listing the allowed
\* values is reported exactly when the value is not a member of the enum; an
\* enum declared on a field of any other type is never checked.
C14_EnumErrorsExact ==
  pc = "return" =>
    \A k \in ObjKeys(fin.input) \cap ObjKeys(fin.schema.properties) :
      LET v == ObjGet(fin.input, k)
          f == ObjGet(fin.schema.properties, k)
          listed == "Field " \o k \o " must be one of: "
      IN  /\ (f.type = "string" /\ f.hasEnum) =>
                /\ HasErrorWith(fout.errors, listed) <=> (v \notin Range(f.enum))
                /\ (v \notin Range(f.enum))
                     => (listed \o AllowedList(f.enum)) \in Range(fout.errors)
          /\ (f.type # "string" \/ ~f.hasEnum) => ~HasErrorWith(fout.errors, listed)

\* C14's case: a string outside the enum of a string field, reported with the
\* allowed values.
C14_Witness ==
  /\ pc = "return"
  /\ fin.schema = TextSchema
  /\ ObjHas(fin.input, "mode") /\ ObjGet(fin.input, "mode") = Str("turbo")
  /\ "Field mode must be one of: fast, slow" \in Range(fout.errors)

\* `input` without its field `k`.
Without(input, k) == SelectSeq(input, LAMBDA e : e.k # k)

Undeclared(input, schema) == ObjKeys(input) \ ObjKeys(schema.properties)

\* C15: an input field whose name schema.properties does not declare never
\* contributes an error, whatever its value, and does not change the errors
\* reported for the declared fields: the report is the one the input without
\* that field gets.
C15_UndeclaredFieldsIgnored ==
  pc = "return" =>
    \A k \in Undeclared(fin.input, fin.schema) :
      /\ ~HasErrorWith(fout.errors, "Field " \o k \o " ")
      /\ MissingError(k) \notin Range(fout.errors)
      /\ fout = validateInput(Without(fin.input, k), fin.schema)

\* C15's case: an undeclared field next to a declared field that has an error.
C15_Witness ==
  /\ pc = "return"
  /\ fin.schema = TextSchema
  /\ "toString" \in Undeclared(fin.input, fin.schema)
  /\ ObjHas(fin.input, "width")
  /\ "Field width must be <= 1024" \in Range(fout.errors)

\* A token --key=value cut at its first '=': the key between "--" and that
\* '=', and the whole remainder as the value.
FirstEquals(arg) ==
  CHOOSE i \in 1..Len(arg) :
    Char(arg, i) = "=" /\ \A j \in 1..(i - 1) : Char(arg, j) # "="
KeyOf(arg) == SubSeq(arg, 3, FirstEquals(arg) - 1)
ValueOf(arg) == SubSeq(arg, FirstEquals(arg) + 1, Len(arg))

\* The last token of `args` with the key of args[i] is args[i] itself.
IsLastForKey(args, i) ==
  \A j \in (i + 1)..Len(args) : KeyOf(args[j]) # KeyOf(args[i])

\* The typed value each value text stands for: JSON texts by their JSON value,
\* unquoted numerals that are not JSON (leading zeros, a plus sign) by their
\* number, everything else, blank included, by the text itself.
ExpectedValue(text) ==
  CASE text = "512" -> Num(512)
    [] text = "-3" -> Num(-3)
    [] text = "007" -> Num(7)
    [] text = "+5" -> Num(5)
    [] text = " 7 " -> Num(7)
    [] text = "5" -> Num(5)
    [] text = "true" -> Bool(TRUE)
    [] text = "false" -> Bool(FALSE)
    [] text = "null" -> Null
    [] text = "\"hi\"" -> Str("hi")
    [] text = "[\"a\",\"b\"]" -> Arr("[\"a\",\"b\"]")
    [] text = "{\"a\": 1}" -> Obj("{\"a\": 1}")
    [] OTHER -> Str(text)

\* C16: each --key=value value is coerced with this precedence and never
\* raises: a value that is valid JSON becomes its JSON value; otherwise true,
\* false and null become their literals; otherwise a non-blank value that
\* parses fully as a number becomes that number; otherwise the string is kept.
C16_CoercionPrecedence ==
  pc = "return" =>
    /\ fout.ok
    /\ \A i \in 1..Len(fin) :
         IsLastForKey(fin, i) =>
           /\ ObjHas(fout.input, KeyOf(fin[i]))
           /\ ObjGet(fout.input, KeyOf(fin[i])).t
                \in {"string", "number", "boolean", "null", "array", "object"}
           /\ ObjGet(fout.input, KeyOf(fin[i])) = ExpectedValue(ValueOf(fin[i]))

\* C16's case: an array, a number that is not JSON and a free text, each coerced.
C16_Witness ==
  /\ pc = "return" /\ fout.ok
  /\ \E i \in 1..Len(fin) :
       /\ fin[i] \in {"--a=[\"a\",\"b\"]", "--a=007", "--a=a cat"}
       /\ IsLastForKey(fin, i)
       /\ ObjGet(fout.input, "a") \in {Arr("[\"a\",\"b\"]"), Num(7), Str("a cat")}

\* C17: a token --key=value is split on its first '=' only: the key is the
\* text between "--" and the first '=', and the value handed to the coercion
\* is the whole remainder, further '=' characters included.
C17_SplitOnFirstEquals ==
  pc = "return" =>
    /\ fout.ok
    /\ ObjKeys(fout.input) = {KeyOf(fin[i]) : i \in 1..Len(fin)}
    /\ \A i \in 1..Len(fin) :
         (IsLastForKey(fin, i) /\ Includes(ValueOf(fin[i]), "="))
           => ObjGet(fout.input, KeyOf(fin[i])) = Str(ValueOf(fin[i]))

\* C17's case: a value with two '=' characters, whole in the result.
C17_Witness ==
  /\ pc = "return" /\ fout.ok
  /\ \E i \in 1..Len(fin) : fin[i] = "--a=x==y" /\ IsLastForKey(fin, i)
  /\ ObjGet(fout.input, "a") = Str("x==y")

\* The first token, in argument order, that is --input-file=<path> or
\* --input-file followed by another token (0: none), and the path it names.
IsInputFileToken(args, i) ==
  \/ StartsWith(args[i], "--input-file=")
  \/ (args[i] = "--input-file" /\ i < Len(args))
FirstInputFileToken(args) ==
  IF \E i \in 1..Len(args) : IsInputFileToken(args, i)
  THEN CHOOSE i \in 1..Len(args) :
         IsInputFileToken(args, i) /\ \A j \in 1..(i - 1) : ~IsInputFileToken(args, j)
  ELSE 0
NamedPath(args) ==
  LET i == FirstInputFileToken(args)
  IN  IF StartsWith(args[i], "--input-file=")
      THEN SubSeq(args[i], Len("--input-file=") + 1, Len(args[i]))
      ELSE args[i + 1]

\* The fields of the files that hold a JSON object.
FileObject(path) ==
  CASE path = "/cwd/in.json" -> <<[k |-> "prompt", v |-> Str("a cat")], [k |-> "width", v |-> Num(256)]>>
    [] path = "/cwd/other.json" -> <<[k |-> "seed", v |-> Num(7)], [k |-> "prompt", v |-> Str("a dog")]>>
    [] path = "/cwd/a=b.json" -> <<[k |-> "steps", v |-> Num(20)]>>
MalformedFiles == {"/cwd/bad.json"}

\* The keys of the --key=value tokens: tokens that start with "--", hold an
\* '=' and are no --input-file=<path> token.
IsCliToken(arg) ==
  /\ Len(arg) >= 2 /\ SubSeq(arg, 1, 2) = "--"
  /\ \E i \in 1..Len(arg) : Char(arg, i) = "="
  /\ ~StartsWith(arg, "--input-file=")
CliTokenKeys(args) == {KeyOf(args[i]) : i \in {j \in 1..Len(args) : IsCliToken(args[j])}}

\* C18: the input file is the one named by the first token that is
\* --input-file=<path> or --input-file followed by another token; no later
\* input-file token is loaded, and no input-file token adds a key.
C18_FirstInputFileWins ==
  (pc = "return" /\ FirstInputFileToken(fin) # 0) =>
    LET path == PathResolve(NamedPath(fin))
    IN  /\ path \notin DOMAIN FileSystem
             => fout = Thrown("Input file not found: " \o path)
        /\ path \in MalformedFiles => ~fout.ok
        /\ (path \in DOMAIN FileSystem \ MalformedFiles) =>
             /\ fout.ok
             /\ ObjKeys(FileObject(path)) \subseteq ObjKeys(fout.input)
             /\ ObjKeys(fout.input) \subseteq ObjKeys(FileObject(path)) \cup CliTokenKeys(fin)
             /\ "input-file" \notin ObjKeys(fout.input)

\* C19: if the detected input-file path does not exist, or the file's content
\* is not valid JSON, parseInputArgs fails with an error (not found, or invalid
\* JSON with the parser's message) and returns no ParsedInput at all, not even
\* the keys the CLI tokens supply.
C19_FileErrorsFail ==
  (pc = "return" /\ FindInputFile(fin) # "") =>
    LET path == PathResolve(FindInputFile(fin))
        invalid == "Invalid JSON in input file: "
    IN  /\ path \notin DOMAIN FileSystem =>
             /\ ~fout.ok /\ fout.input = <<>>
             /\ fout.message = "Input file not found: " \o path
        /\ path \in MalformedFiles =>
             /\ ~fout.ok /\ fout.input = <<>>
             /\ StartsWith(fout.message, invalid)
             /\ Len(fout.message) > Len(invalid)
        /\ ~fout.ok => (path \notin DOMAIN FileSystem \/ path \in MalformedFiles)

\* C19's case: a malformed file next to a --key=value token, and nothing returned.
C19_Witness ==
  /\ pc = "return"
  /\ \E i, j \in 1..Len(fin) : fin[i] = "--input-file=bad.json" /\ IsCliToken(fin[j])
  /\ PathResolve(FindInputFile(fin)) \in MalformedFiles
  /\ ~fout.ok /\ fout.input = <<>>

\* The object of the file parseInputArgs loaded (none: the empty object).
LoadedObject(args) ==
  IF FindInputFile(args) = "" THEN <<>> ELSE FileObject(PathResolve(FindInputFile(args)))

\* C20: the keys of the ParsedInput are exactly the keys of the file's object
\* and the keys of the --key=value tokens; a key only the file has keeps the
\* file's value; with no input file the result holds exactly the CLI keys;
\* tokens without "--" or without '=' add nothing.
C20_KeysAreFileAndCli ==
  (pc = "return" /\ fout.ok) =>
    /\ ObjKeys(fout.input) = ObjKeys(LoadedObject(fin)) \cup CliTokenKeys(fin)
    /\ \A k \in ObjKeys(LoadedObject(fin)) \ CliTokenKeys(fin) :
         ObjGet(fout.input, k) = ObjGet(LoadedObject(fin), k)
    /\ FirstInputFileToken(fin) = 0 => ObjKeys(fout.input) = CliTokenKeys(fin)

\* C20's case: a file, a --key=value token for one of its keys, and tokens
\* that are neither; the file's other key keeps its value.
C20_Witness ==
  /\ pc = "return" /\ fout.ok
  /\ \E i, j, l \in 1..Len(fin) :
       /\ fin[i] = "--input-file=in.json"
       /\ fin[j] = "--prompt=dog"
       /\ fin[l] \in {"prompt=x", "--verbose"}
  /\ ObjKeys(fout.input) = {"prompt", "width"}
  /\ ObjGet(fout.input, "width") = Num(256)
  /\ ObjGet(fout.input, "prompt") = Str("dog")

TerminalStatuses == {"succeeded", "failed", "canceled"}

\* The step in which replicate.wait returns the prediction in a terminal status.
WaitReturned ==
  /\ pc = "wait"
  /\ prediction.status \notin TerminalStatuses
  /\ prediction'.status \in TerminalStatuses

\* C21: in wait mode every terminal status maps to one outcome: succeeded
\* surfaces the output and the command succeeds, failed surfaces the
\* prediction's error message and the command fails, canceled signals the
\* cancellation and the command fails; and nothing is reported as the
\* command's result while the created prediction is still awaited.
C21_TerminalStatusOutcome ==
  /\ [][WaitReturned =>
          /\ prediction'.status = "succeeded" =>
               /\ pc' = "done"
               /\ outcome' = Success(CompletedMessage(prediction'))
          /\ prediction'.status = "failed" =>
               /\ pc' = "failed"
               /\ outcome'.kind = "error"
               /\ Includes(outcome'.message,
                           IF prediction'.error # "" THEN prediction'.error
                           ELSE "Unknown error")
          /\ prediction'.status = "canceled" =>
               /\ pc' = "failed"
               /\ outcome'.kind = "error"
               /\ Includes(outcome'.message, "canceled")]_vars
  /\ []((inv.cmd \in PredictionCmds /\ inv.wait /\ pc \in {"predictions.create", "wait"})
          => outcome = NoOutcome)

\* C22: without --wait, run / predictions:create creates one prediction,
\* reports the id and the initial status that call returned, and ends
\* without ever awaiting or fetching the prediction.
C22_NoWaitReturnsImmediately ==
  (inv.cmd \in PredictionCmds /\ ~inv.wait) =>
    /\ pc # "wait"
    /\ created <= 1
    /\ (created = 1) <=> (pc = "done")
    /\ pc = "done" =>
         /\ prediction.status \in InitialStatuses
         /\ outcome.kind = "success"
         /\ Includes(outcome.message, "ID: " \o prediction.id)
         /\ Includes(outcome.message, "Status: " \o prediction.status)

C22_Witness ==
  /\ inv.cmd \in PredictionCmds /\ ~inv.wait
  /\ pc = "done" /\ created = 1
  /\ prediction.status = "processing"
  /\ recoveries = 1

\* C23: predictions:get --watch fetches again while the fetched status is
\* starting or processing, reports nothing while the last fetched status is
\* one of the two, reports the first fetched status that is neither, and
\* ends whenever the remote job reaches succeeded, failed or canceled.
C23_WatchPollsUntilTerminal ==
  /\ [](inv.watch =>
          /\ prediction.status \in InitialStatuses =>
               /\ pc \in {"sleep", "poll", "failed"}
               /\ outcome.kind # "success"
          /\ (prediction # NoPrediction /\ prediction.status \notin InitialStatuses) =>
               /\ pc = "done"
               /\ outcome = Success(GetReport(prediction, inv.json))
          /\ pc \in {"sleep", "poll"} => prediction.status \in InitialStatuses)
  /\ [][(inv.watch /\ pc = "sleep" /\ pc' # pc) => pc' = "poll"]_vars
  /\ (inv.watch /\ job \in TerminalStatuses) ~> (pc \in {"done", "failed"})

\* The watch has polled at least once and then reported a failed job.
C23_Witness ==
  /\ inv.watch /\ ~inv.json
  /\ pc = "done"
  /\ events = <<ProgressLine(prediction)>>
  /\ prediction.status = "failed"
  /\ outcome = Success(GetReport(prediction, FALSE))

\* A source supplies a token when it holds a non-empty one.
Supplies(source) == source \notin {Unset, NoFile, ""}

\* C24: getApiToken returns the stored token when there is one, otherwise
\* the REPLICATE_API_TOKEN variable, otherwise the token of .env.local (or
\* of .env when there is no .env.local), and null only when none of the
\* three supplies a token.
C24_TokenPriority ==
  pc = "return" =>
    LET file == SelectedEnvFile(fin.local, fin.dotf)
    IN  fout = IF Supplies(fin.cfg) THEN fin.cfg
               ELSE IF Supplies(fin.env) THEN fin.env
               ELSE IF Supplies(file) THEN file
               ELSE ""

\* The same order when the variable is either unset or holds a token.
C24_PriorityUnlessEmptyVariable ==
  (pc = "return" /\ fin.env # "") =>
    LET file == SelectedEnvFile(fin.local, fin.dotf)
    IN  fout = IF Supplies(fin.cfg) THEN fin.cfg
               ELSE IF Supplies(fin.env) THEN fin.env
               ELSE IF Supplies(file) THEN file
               ELSE ""

\* The other name of a prediction command.
AliasOf(cmd) == IF cmd = "run" THEN "predictions:create" ELSE "run"

\* C25: run is an alias of predictions:create.  The two run() bodies differ
\* only in what follows models.get, so the claim is that for every model
\* models.get may return (one without a published version included) the
\* step one command takes is the step the other takes from the same state:
\* the same next remote call, or the same failure.
C25_RunIsAliasOfCreate ==
  [][\A latest \in BOOLEAN :
       (inv.cmd \in PredictionCmds /\ pc = "models.get" /\ ModelsGetStep(inv.cmd, latest))
         => ModelsGetStep(AliasOf(inv.cmd), latest)]_vars

\* The same comparison for models that have a published version.
C25_AliasWhenPublished ==
  [][(inv.cmd \in PredictionCmds /\ pc = "models.get" /\ ModelsGetStep(inv.cmd, TRUE))
       => ModelsGetStep(AliasOf(inv.cmd), TRUE)]_vars

\* C26: after any sequence of auth:login, auth:logout, config:set, first-use
\* prompting and auth recovery in one process, the cached client is null or
\* was constructed from the token getApiToken resolves at that moment.
C26_CachedClientIsCurrent ==
  client = NullClient
    \/ client.auth = getApiToken(configToken, envToken, dotenvToken)

\* A client cached again after the stored token was replaced: the third
\* instance of the process, built from the token typed at auth:login while
\* the environment variable holds another one.
C26_Witness ==
  /\ client.id >= 3
  /\ client.auth = "tok_new"
  /\ envToken = "tok_env"
  /\ outcome = Success("Authentication successful!")

\* The step in which the attempt re-run after a recovery takes its client:
\* getClient() returned one without prompting again.
RetryTakesClient ==
  /\ pc = "run" /\ recoveries > 0
  /\ pc' \notin {"run", "authPrompt"}

\* C27: the client of the retried attempt is built from the token just
\* entered at the recovery prompt (the stored token at the time of the
\* re-run), whatever was entered, the empty string included, and never from
\* another source such as the environment variable.
C27_RetryUsesEnteredToken ==
  [][RetryTakesClient => replicate'.auth = configToken]_vars

\* The same for the answers that are not empty.
C27_RetryUsesNonEmptyAnswer ==
  [][(RetryTakesClient /\ configToken # "") => replicate'.auth = configToken]_vars

\* A local input error of run / predictions:create: a parseInputArgs
\* failure, a validation failure, or a bad model identifier.
IsLocalInputError(error) ==
  /\ error.origin = "local"
  /\ \/ IsInputError(error.message)
     \/ error.message = "Model must be in format: owner/model-name"

\* The step in which run() raises a local input error.
RaisesLocalInputError ==
  /\ inv.cmd \in PredictionCmds
  /\ pc \in {"run", "authPrompt", "versions.get"}
  /\ IsLocalInputError(caught')

\* C28: a local input error never triggers auth recovery, whatever field
\* names, file paths or enum values its message holds: the stored token is
\* not deleted, the user is not prompted, the command is not re-run.
C28_InputErrorNeverRecovers ==
  [][RaisesLocalInputError =>
       /\ pc' = "failed"
       /\ recoveries' = recoveries
       /\ events' # RecoveryUpToPrompt
       /\ (pc # "authPrompt" => configToken' = configToken)]_vars

\* The same for the messages that hold none of the classifier's substrings.
C28_PlainInputErrorNeverRecovers ==
  [][(RaisesLocalInputError /\ ~isAuthError(caught')) =>
       /\ pc' = "failed"
       /\ recoveries' = recoveries
       /\ events' # RecoveryUpToPrompt
       /\ (pc # "authPrompt" => configToken' = configToken)]_vars

\* How many of `errors` name field k.
ErrorsNaming(errors, k) == Cardinality({i \in 1..Len(errors) : NamesField(errors[i], k)})

\* C29: a declared field whose value has the wrong runtime type gets at most
\* one error: the type mismatch of a number/integer field comes without a
\* range error, that of a string field without an enum error.
C29_OneErrorPerMistypedField ==
  pc = "return" =>
    \A k \in ObjKeys(fin.input) \cap ObjKeys(fin.schema.properties) :
      LET v == ObjGet(fin.input, k)
          f == ObjGet(fin.schema.properties, k)
      IN  (f.type \in {"integer", "number", "string"} /\ ~RuntimeTypeMatches(v, f.type)) =>
            /\ ErrorsNaming(fout.errors, k) <= 1
            /\ ~HasErrorWith(fout.errors, "Field " \o k \o " must be >= ")
            /\ ~HasErrorWith(fout.errors, "Field " \o k \o " must be <= ")
            /\ ~HasErrorWith(fout.errors, "Field " \o k \o " must be one of: ")

\* The number/integer half of C29 alone.
C29_NoRangeErrorWhenMistyped ==
  pc = "return" =>
    \A k \in ObjKeys(fin.input) \cap ObjKeys(fin.schema.properties) :
      LET v == ObjGet(fin.input, k)
          f == ObjGet(fin.schema.properties, k)
      IN  (f.type \in {"integer", "number"} /\ v.t # "number") =>
            /\ ~HasErrorWith(fout.errors, "Field " \o k \o " must be >= ")
            /\ ~HasErrorWith(fout.errors, "Field " \o k \o " must be <= ")

\* The positions of the --key=value tokens of `args` whose key is k.
TokensFor(args, k) ==
  {i \in 1..Len(args) : IsCliToken(args[i]) /\ KeyOf(args[i]) = k}

Max(S) == CHOOSE x \in S : \A y \in S : y <= x

\* C30: when a key appears in several --key=value tokens, the ParsedInput
\* holds the coerced value of the last of them in argument order, and the
\* earlier ones leave no trace: the key is held once, with that value only.
C30_LastDuplicateWins ==
  (pc = "return" /\ fout.ok) =>
    \A k \in {KeyOf(fin[i]) : i \in {j \in 1..Len(fin) : IsCliToken(fin[j])}} :
      Cardinality(TokensFor(fin, k)) > 1 =>
        /\ Cardinality({i \in 1..Len(fout.input) : fout.input[i].k = k}) = 1
        /\ ObjGet(fout.input, k) = ExpectedValue(ValueOf(fin[Max(TokensFor(fin, k))]))

\* C30's case: the same key twice with values of different types.
C30_Witness ==
  /\ pc = "return" /\ fout.ok
  /\ fin = <<"--a=512", "--a=a cat">>
  /\ fout.input = <<[k |-> "a", v |-> Str("a cat")]>>

====
